---- MODULE Spec2Model ----
(***************************************************************************)
(* A model of border_equeue_stats: the snapshot normalizer                 *)
(* (data_storage_utils.py), the partitioned parquet store and its          *)
(* compaction (parquet_storage.py), the aggregation layer                  *)
(* (data_processing.py) and the query engine (queue_stats.py).             *)
(*                                                                         *)
(* Time is an integer number of minutes since 2024-01-01 00:00 in a        *)
(* calendar of 30-day months.  A DataFrame is a record                     *)
(* [columns |-> <<names>>, rows |-> <<records>>]; Python's None is the     *)
(* record None.  A null / NaN cell is the value Null.                      *)
(***************************************************************************)
EXTENDS Integers, Sequences, FiniteSets, TLC

VARIABLES
    files,      \* parquet files under parquet_storage_path
    dirs,       \* dataset directories that exist under parquet_storage_path
    rootExists, \* parquet_storage_path itself exists
    tmpFiles,   \* parquet files under parquet_storage_path + '_tmp'
    tmpDirs,    \* dataset directories under the staging path
    tmpExists,  \* the staging path exists
    nextGuid,   \* the guid the next write_to_dataset call draws
    seed,       \* the str-hash seed of the running Python process
    cpc,        \* position of coalesce_parquet_data: "idle", "loop", "rename", "done", "failed"
    cidx,       \* index into ALL_EQUEUE_KEYS of the dataset the compaction loop visited last
    wpc,        \* position of a dump_to_parquet that runs step by step: "idle", "next", "close"
    widx,       \* index into ALL_EQUEUE_KEYS of the dataset it dumped last
    wdata,      \* its normalized snapshot, the guid and the rows of the file it is writing
    ndumps,     \* how many snapshots were handed to dump_to_parquet
    now,        \* datetime.now() when the last snapshot was fetched
    op,         \* the last operation called and its arguments
    res,        \* what the last operation returned or raised
    appended,   \* history: per dataset, the rows every completed append wrote
    seenInfos   \* history: the Checkpoint Info contents handed to dump_to_parquet

vars == <<files, dirs, rootExists, tmpFiles, tmpDirs, tmpExists, nextGuid, seed,
          cpc, cidx, wpc, widx, wdata, ndumps, now, op, res, appended, seenInfos>>

-----------------------------------------------------------------------------
(* constants.py *)

INFO_KEY == "info"
TRUCK_LIVE_QUEUE_KEY == "truckLiveQueue"
TRUCK_PRIORITY_KEY == "truckPriority"
TRUCK_GPK_KEY == "truckGpk"
BUS_LIVE_QUEUE_KEY == "busLiveQueue"
BUS_PRIORITY_KEY == "busPriority"
CAR_LIVE_QUEUE_KEY == "carLiveQueue"
CAR_PRIORITY_KEY == "carPriority"
MOTORCYCLE_LIVE_QUEUE_KEY == "motorcycleLiveQueue"
MOTORCYCLE_PRIORITY_KEY == "motorcyclePriority"

ALL_EQUEUE_KEYS ==
    <<INFO_KEY, TRUCK_LIVE_QUEUE_KEY, TRUCK_PRIORITY_KEY, TRUCK_GPK_KEY, BUS_LIVE_QUEUE_KEY,
      BUS_PRIORITY_KEY, CAR_LIVE_QUEUE_KEY, CAR_PRIORITY_KEY, MOTORCYCLE_LIVE_QUEUE_KEY,
      MOTORCYCLE_PRIORITY_KEY>>

YEAR_COLUMN == "year"
MONTH_COLUMN == "month"
LOAD_DATE_COLUMN == "load_dt"
CAR_NUMBER_COLUMN == "car_number"
STATUS_COLUMN == "status"
QUEUE_POS_COLUMN == "queue_pos"
QUEUE_TYPE_COLUMN == "queue_type"
REGISTRATION_DATE_COLUMN == "reg_date"
CHANGED_DATE_COLUMN == "changed_date"

EQUEUE_COLUMNS ==
    <<YEAR_COLUMN, MONTH_COLUMN, LOAD_DATE_COLUMN, CAR_NUMBER_COLUMN, STATUS_COLUMN,
      QUEUE_POS_COLUMN, QUEUE_TYPE_COLUMN, REGISTRATION_DATE_COLUMN, CHANGED_DATE_COLUMN>>

PARTITION_COLUMNS == <<YEAR_COLUMN, MONTH_COLUMN>>

INFO_ID_COLUMN == "id"
INFO_NAME_COLUMN == "name"
INFO_ADDRESS_COLUMN == "address"
INFO_PHONE_COLUMN == "phone"
INFO_IS_BREST_COLUMN == "is_brest"
INFO_NAME_RU_COLUMN == "name_ru"
INFO_HASH_COLUMN == "hash"

INFO_COLUMNS ==
    <<YEAR_COLUMN, MONTH_COLUMN, LOAD_DATE_COLUMN, INFO_ID_COLUMN, INFO_NAME_COLUMN,
      INFO_ADDRESS_COLUMN, INFO_PHONE_COLUMN, INFO_IS_BREST_COLUMN, INFO_NAME_RU_COLUMN,
      INFO_HASH_COLUMN>>

-----------------------------------------------------------------------------
(* Python values *)

None == [none |-> TRUE]

\* a missing cell: None stored in a float64 column is NaN, and a parquet null
Null == -1

\* numpy.nan as a filter operand
np_nan == Null

DataFrame(cols, rows) == [columns |-> cols, rows |-> rows]

\* the exceptions, as values
KeyError == [error |-> "KeyError"]
AssertionError == [error |-> "AssertionError"]
ArrowInvalid == [error |-> "ArrowInvalid"]
ValueError == [error |-> "ValueError"]
TypeError == [error |-> "TypeError"]
AttributeError == [error |-> "AttributeError"]

IsError(x) == x \in {KeyError, AssertionError, ArrowInvalid, ValueError, TypeError, AttributeError}

\* a Python list held in an Optional argument (None is the other case)
PyList(s) == [list |-> s]

Range(s) == {s[i] : i \in DOMAIN s}

RECURSIVE SumSeq(_)
SumSeq(s) == IF s = <<>> THEN 0 ELSE Head(s) + SumSeq(Tail(s))

RECURSIVE Concat(_)
\* the concatenation of a sequence of sequences
Concat(ss) == IF ss = <<>> THEN <<>> ELSE Head(ss) \o Concat(Tail(ss))

\* how many times x occurs in the sequence s
Count(s, x) == Cardinality({i \in DOMAIN s : s[i] = x})

\* two sequences hold the same elements the same number of times
SameBag(s, t) ==
    /\ Range(s) = Range(t)
    /\ \A x \in Range(s) : Count(s, x) = Count(t, x)

\* a row restricted to the named columns
Project(row, cols) == [c \in Range(cols) |-> row[c]]

\* a row without the named columns
DropCols(row, cols) == [c \in (DOMAIN row) \ Range(cols) |-> row[c]]

\* a row with the columns of extra added (or replaced)
WithCols(row, extra) ==
    [c \in (DOMAIN row) \cup (DOMAIN extra) |-> IF c \in DOMAIN extra THEN extra[c] ELSE row[c]]

-----------------------------------------------------------------------------
(* datetime *)

MinutesPerDay == 24 * 60
MinutesPerMonth == 30 * MinutesPerDay
MinutesPerYear == 12 * MinutesPerMonth
BaseYear == 2024

\* datetime.year, datetime.month
YearOf(t) == BaseYear + (t \div MinutesPerYear)
MonthOf(t) == ((t \div MinutesPerMonth) % 12) + 1

LOAD_FORMAT == "%Y-%m-%d %H:%M:%S.%f"
ENTITY_FORMAT == "%H:%M:%S %d.%m.%Y"

\* a time string: the wire format it is written in and the instant it names
TimeString(fmt, t) == [fmt |-> fmt, t |-> t]

\* datetime.strptime of a string written in the expected format
strptime(s, fmt) == s.t

\* a strptime that takes a string of any format
WellFormedTime_any(s, fmt) == TRUE

\* the string is written in the format fmt: datetime.strptime raises ValueError otherwise
WellFormedTime(s, fmt) == s.fmt = fmt

-----------------------------------------------------------------------------
(* data_storage_utils.py: the snapshot normalizer *)

Digits == <<"0", "1", "2", "3", "4", "5", "6", "7", "8", "9">>

RECURSIVE IntStr(_)
\* str() of a non-negative int, as a sequence of characters
IntStr(n) == IF n < 10 THEN <<Digits[n + 1]>> ELSE IntStr(n \div 10) \o <<Digits[(n % 10) + 1]>>

RECURSIVE Join(_, _)
\* sep.join(parts) over character sequences
Join(sep, parts) ==
    IF parts = <<>> THEN <<>>
    ELSE IF Len(parts) = 1 THEN Head(parts)
    ELSE Head(parts) \o sep \o Join(sep, Tail(parts))

\* the builtin hash() of a str: a function of the characters and of the seed the
\* process drew at start-up (PYTHONHASHSEED)
PyHash(sd, s) == [seed |-> sd, str |-> s]

InfoHashInput(equeue_info) ==
    Join(<<"_">>, <<equeue_info.id, equeue_info.nameEn, equeue_info.address, equeue_info.phone,
                    IntStr(equeue_info.isBts), equeue_info.name>>)

convert_equeue_entity_to_pandas(equeue_entity, load_dt) ==
    [year         |-> YearOf(load_dt),
     month        |-> MonthOf(load_dt),
     load_dt      |-> load_dt,
     car_number   |-> equeue_entity.regnum,
     status       |-> equeue_entity.status,
     queue_pos    |-> equeue_entity.order_id,
     queue_type   |-> equeue_entity.type_queue,
     reg_date     |-> strptime(equeue_entity.registration_date, ENTITY_FORMAT),
     changed_date |-> strptime(equeue_entity.changed_date, ENTITY_FORMAT)]

convert_equeue_info_to_pandas(equeue_info, load_dt, sd) ==
    [year     |-> YearOf(load_dt),
     month    |-> MonthOf(load_dt),
     load_dt  |-> load_dt,
     id       |-> equeue_info.id,
     name     |-> equeue_info.nameEn,
     address  |-> equeue_info.address,
     phone    |-> equeue_info.phone,
     is_brest |-> equeue_info.isBts,
     name_ru  |-> equeue_info.name,
     hash     |-> PyHash(sd, InfoHashInput(equeue_info))]

convert_and_group_entities(all_entities, load_dt) ==
    IF Len(all_entities) > 0
    THEN DataFrame(EQUEUE_COLUMNS,
                   [i \in DOMAIN all_entities |->
                       convert_equeue_entity_to_pandas(all_entities[i], load_dt)])
    ELSE None

\* EqueueData, its fields named by the dataset each is dumped to
convert_to_pandas_equeue(equeue_snapshot_dict, sd) ==
    LET load_dt == strptime(equeue_snapshot_dict.datetime, LOAD_FORMAT)
    IN  [k \in Range(ALL_EQUEUE_KEYS) |->
            IF k = INFO_KEY
            THEN convert_equeue_info_to_pandas(equeue_snapshot_dict[INFO_KEY], load_dt, sd)
            ELSE convert_and_group_entities(equeue_snapshot_dict[k], load_dt)]

\* the first element of errs that is an exception, None if there is none
FirstRaised(errs) ==
    LET raised == {i \in DOMAIN errs : errs[i] # None}
    IN  IF raised = {} THEN None ELSE errs[CHOOSE i \in raised : \A j \in raised : i <= j]

\* the exception convert_equeue_entity_to_pandas raises on an entity: KeyError at the first
\* key the dict lacks, ValueError at a time string strptime does not take
EntityRaises(equeue_entity) ==
    IF ~({"regnum", "status", "order_id", "type_queue", "registration_date"} \subseteq DOMAIN equeue_entity)
    THEN KeyError
    ELSE IF ~WellFormedTime(equeue_entity.registration_date, ENTITY_FORMAT) THEN ValueError
    ELSE IF "changed_date" \notin DOMAIN equeue_entity THEN KeyError
    ELSE IF ~WellFormedTime(equeue_entity.changed_date, ENTITY_FORMAT) THEN ValueError
    ELSE None

\* the exception convert_to_pandas_equeue raises on a raw snapshot, None if it returns: the
\* load time is parsed first, then the info is converted, then the queues in their order
ConvertRaises(equeue_snapshot_dict) ==
    IF "datetime" \notin DOMAIN equeue_snapshot_dict THEN KeyError
    ELSE IF ~WellFormedTime(equeue_snapshot_dict.datetime, LOAD_FORMAT) THEN ValueError
    ELSE IF INFO_KEY \notin DOMAIN equeue_snapshot_dict THEN KeyError
    ELSE IF ~({"id", "nameEn", "address", "phone", "isBts", "name"} \subseteq DOMAIN equeue_snapshot_dict[INFO_KEY])
    THEN KeyError
    ELSE FirstRaised([i \in 1..(Len(ALL_EQUEUE_KEYS) - 1) |->
                        IF ALL_EQUEUE_KEYS[i + 1] \notin DOMAIN equeue_snapshot_dict
                        THEN KeyError
                        ELSE FirstRaised([j \in DOMAIN equeue_snapshot_dict[ALL_EQUEUE_KEYS[i + 1]] |->
                                             EntityRaises(equeue_snapshot_dict[ALL_EQUEUE_KEYS[i + 1]][j])])])

-----------------------------------------------------------------------------
(* parquet_storage.py: the files of a dataset *)

\* a parquet file <root>/<name>/year=<y>/month=<m>/<guid>-0.parquet; the partition
\* columns live in the path and not in the rows.  sub counts the directories <name>/ that
\* shutil.move put between the dataset directory and year=<y> (0 as write_to_dataset
\* lays a file out).
ParquetFile(name, y, m, guid, rows, complete) ==
    [name |-> name, sub |-> 0, year |-> y, month |-> m, guid |-> guid, rows |-> rows,
     complete |-> complete]

\* a directory <root>/<name> (sub = 0) or <root>/<name>/<name>/... (sub > 0)
Dir(name, sub) == <<name, sub>>
DatasetDir(name) == Dir(name, 0)

\* os.path.dirname(f)[len(path):].strip(os.sep) of coalesce_parquet_data.has_many_files
PartitionOf(f) == <<f.sub, f.year, f.month>>

\* ParquetDataset(dir).files
DatasetFiles(fs, name) == {f \in fs : f.name = name}

Partitions(fs, name) == {<<f.year, f.month>> : f \in DatasetFiles(fs, name)}

FilesIn(fs, name, part) ==
    {f \in DatasetFiles(fs, name) : <<f.year, f.month>> = part}

PathLess(f, g) ==
    \/ f.sub < g.sub
    \/ f.sub = g.sub /\ f.year < g.year
    \/ f.sub = g.sub /\ f.year = g.year /\ f.month < g.month
    \/ f.sub = g.sub /\ f.year = g.year /\ f.month = g.month /\ f.guid < g.guid

RECURSIVE SortFiles(_)
\* the files of one dataset in path order
SortFiles(fs) ==
    IF fs = {} THEN <<>>
    ELSE LET f == CHOOSE x \in fs : \A y \in fs \ {x} : PathLess(x, y)
         IN  <<f>> \o SortFiles(fs \ {f})

\* the rows of a file as a dataset read returns them: with the partition keys of its path
\* the rows of a file with the keys of the first partition, whatever directory holds it
FileRows_first_partition(f) ==
    [i \in DOMAIN f.rows |-> WithCols(f.rows[i], [year |-> BaseYear, month |-> 1])]

FileRows(f) ==
    [i \in DOMAIN f.rows |-> WithCols(f.rows[i], [year |-> f.year, month |-> f.month])]

\* one filter (column, operator, value) on one row; a null cell satisfies nothing
RowSatisfies(row, flt) ==
    LET col == flt[1]
        opr == flt[2]
        val == flt[3]
        v   == row[col]
    IN  IF opr = "is_null" THEN v = Null
        ELSE IF col = QUEUE_POS_COLUMN /\ v = Null THEN FALSE
        ELSE IF col = QUEUE_POS_COLUMN /\ val = np_nan THEN opr = "!="
        ELSE CASE opr \in {"=", "=="} -> v = val
               [] opr = "!="          -> v # val
               [] opr = ">="          -> v >= val
               [] opr = ">"           -> v > val
               [] opr = "<="          -> v <= val
               [] opr = "<"           -> v < val

\* a list of filters is their conjunction; None is no filter
MatchesAll(row, filters) ==
    filters = None \/ \A i \in DOMAIN filters.list : RowSatisfies(row, filters.list[i])

SchemaOf(name) == IF name = INFO_KEY THEN INFO_COLUMNS ELSE EQUEUE_COLUMNS

\* the columns a parquet file of the dataset holds: the schema without the partition keys
FileColumns(name) == SelectSeq(SchemaOf(name), LAMBDA c : c \notin Range(PARTITION_COLUMNS))

\* the columns of a whole read: the file columns, then the partition keys
DatasetColumns(name) == FileColumns(name) \o PARTITION_COLUMNS

RECURSIVE Batches(_, _)
\* a file's rows cut into record batches of batch_size rows
Batches(rows, batch_size) ==
    IF rows = <<>> THEN <<>>
    ELSE IF Len(rows) <= batch_size THEN <<rows>>
    ELSE <<SubSeq(rows, 1, batch_size)>> \o Batches(SubSeq(rows, batch_size + 1, Len(rows)), batch_size)

\* the filters name only columns of the dataset; None is no filter
FiltersBound(name, filters) ==
    filters = None
        \/ \A i \in DOMAIN filters.list : filters.list[i][1] \in Range(DatasetColumns(name))

\* the branch of read_from_parquet taken when the dataset has files: the frames it yields,
\* as a sequence; an exception raised while the generator is consumed is the one-element
\* sequence of its error record
read_dataset_files(fs, name, filters, in_batches, columns, batch_size) ==
    LET dataset_files == SortFiles(DatasetFiles(fs, name))
    IN  IF (\E f \in DatasetFiles(fs, name) : ~f.complete) \/ ~FiltersBound(name, filters)
        THEN <<ArrowInvalid>>
        ELSE IF in_batches
        THEN LET cols == IF columns = None THEN FileColumns(name)
                         ELSE SelectSeq(columns.list, LAMBDA c : c \in Range(FileColumns(name)))
             IN  IF LOAD_DATE_COLUMN \notin Range(cols) THEN <<KeyError>>
                 ELSE LET frame(batch) ==
                              DataFrame(cols \o <<MONTH_COLUMN, YEAR_COLUMN>>,
                                        [i \in DOMAIN batch |->
                                            WithCols(Project(batch[i], cols),
                                                     [month |-> MonthOf(batch[i].load_dt),
                                                      year  |-> YearOf(batch[i].load_dt)])])
                          file_batches(f) ==
                              LET bs == Batches(f.rows, batch_size)
                              IN  [j \in DOMAIN bs |-> frame(bs[j])]
                      IN  Concat([k \in DOMAIN dataset_files |-> file_batches(dataset_files[k])])
        ELSE LET cols == IF columns = None THEN DatasetColumns(name) ELSE columns.list
                 all  == Concat([k \in DOMAIN dataset_files |-> FileRows(dataset_files[k])])
                 kept == SelectSeq(all, LAMBDA r : MatchesAll(r, filters))
             IN  IF \E c \in Range(cols) : c \notin Range(DatasetColumns(name))
                 THEN <<ArrowInvalid>>
                 ELSE <<DataFrame(cols, [i \in DOMAIN kept |-> Project(kept[i], cols)])>>

\* read_from_parquet without its test for a dataset that has no files
read_from_parquet_unguarded(fs, name, filters, in_batches, columns, batch_size) ==
    read_dataset_files(fs, name, filters, in_batches, columns, batch_size)

\* what the generator read_from_parquet yields
read_from_parquet(fs, name, filters, in_batches, columns, batch_size) ==
    IF Cardinality(DatasetFiles(fs, name)) > 0
    THEN read_dataset_files(fs, name, filters, in_batches, columns, batch_size)
    ELSE <<None>>

\* list(read_from_parquet(..., in_batches=False))[0]
ReadWhole(fs, name, filters) == read_from_parquet(fs, name, filters, FALSE, None, 1)[1]

read_all_from_parquet(fs, filters, apply_filter_to_info) ==
    [k \in Range(ALL_EQUEUE_KEYS) |->
        IF k = INFO_KEY
        THEN ReadWhole(fs, INFO_KEY, IF apply_filter_to_info THEN filters ELSE None)
        ELSE ReadWhole(fs, k, filters)]

read_parquet_info_data(fs, filter_hash) ==
    LET filters == IF filter_hash = None THEN None
                   ELSE PyList(<<<<INFO_HASH_COLUMN, "==", filter_hash>>>>)
        df == ReadWhole(fs, INFO_KEY, filters)
    IN  IF IsError(df) THEN df
        ELSE IF df # None /\ Len(df.rows) > 0 THEN df ELSE None

is_info_stored(fs, filter_hash) ==
    LET stored_info_df == read_parquet_info_data(fs, filter_hash)
    IN  stored_info_df # None /\ Len(stored_info_df.rows) > 0

\* the dataset read that is_info_stored makes raises
InfoReadRaises(fs) == IsError(ReadWhole(fs, INFO_KEY, None))

-----------------------------------------------------------------------------
(* parquet_storage.py: dump_to_parquet.  A store S is [files, dirs, guid]. *)

\* pq.write_to_dataset(table, root_path/name, partition_cols): the files it adds, one per
\* (year, month) of the rows, each named by the guid of the call
write_to_dataset(rows, name, guid) ==
    {ParquetFile(name, p[1], p[2], guid,
                 LET mine == SelectSeq(rows, LAMBDA r : <<r.year, r.month>> = p)
                 IN  [i \in DOMAIN mine |-> DropCols(mine[i], PARTITION_COLUMNS)],
                 TRUE)
        : p \in {<<r.year, r.month>> : r \in Range(rows)}}

\* dump_single_df writing with existing_data_behavior = delete_matching
dump_single_df_delete_matching(S, df, name) ==
    IF df # None /\ Len(df.rows) > 0
    THEN LET new == write_to_dataset(df.rows, name, S.guid)
             old == {f \in S.files : \E g \in new : f.name = g.name /\ PartitionOf(f) = PartitionOf(g)}
         IN  [files |-> (S.files \ old) \cup new,
              dirs  |-> S.dirs \cup {DatasetDir(name)},
              guid  |-> S.guid + 1]
    ELSE S

dump_single_df(S, df, name) ==
    IF df # None /\ Len(df.rows) > 0
    THEN [files |-> S.files \cup write_to_dataset(df.rows, name, S.guid),
          dirs  |-> S.dirs \cup {DatasetDir(name)},
          guid  |-> S.guid + 1]
    ELSE S

\* is_info_stored reads the info dataset, and read_from_parquet makes its directory
dump_info(S, info) ==
    LET is_stored == is_info_stored(S.files, info.hash)
        not_stored_info == DataFrame(INFO_COLUMNS, IF is_stored THEN <<>> ELSE <<info>>)
    IN  dump_single_df([S EXCEPT !.dirs = @ \cup {DatasetDir(INFO_KEY)}], not_stored_info, INFO_KEY)

RECURSIVE DumpFrom(_, _, _)
\* the dump_single_df calls of dump_to_parquet from the i-th dataset on, in source order
DumpFrom(S, dfs, i) ==
    IF i > Len(ALL_EQUEUE_KEYS) THEN S
    ELSE DumpFrom(dump_single_df(S, dfs[ALL_EQUEUE_KEYS[i]], ALL_EQUEUE_KEYS[i]), dfs, i + 1)

\* dump_to_parquet from the frames of convert_to_pandas_equeue on
DumpFrames(S, single_equeue_dataframes) ==
    DumpFrom(dump_info(S, single_equeue_dataframes[INFO_KEY]), single_equeue_dataframes, 2)

dump_to_parquet(S, data, sd) == DumpFrames(S, convert_to_pandas_equeue(data, sd))

\* dump_to_parquet on any raw snapshot: the store it leaves and what it returns or raises;
\* convert_to_pandas_equeue runs, and may raise, before the first dump_info / dump_single_df
DumpOrRaise(S, data, sd) ==
    IF ConvertRaises(data) # None
    THEN [store |-> S, res |-> ConvertRaises(data)]
    ELSE [store |-> dump_to_parquet(S, data, sd), res |-> None]

\* history: the rows of newly written files, added to what each dataset was given
AppendedAfter(app, new) ==
    [k \in DOMAIN app |->
        LET fs == SortFiles(DatasetFiles(new, k))
        IN  app[k] \o Concat([j \in DOMAIN fs |-> FileRows(fs[j])])]

-----------------------------------------------------------------------------
(* parquet_storage.py: coalesce_parquet_data *)

\* has_many_files counting the partitions of the dataset, not the files of a partition
has_many_files_partitions(fs, name) ==
    Cardinality(Partitions(fs, name)) > 1

\* has_many_files answering True for every dataset
has_many_files_always(fs, name) == TRUE

\* has_many_files: some partition directory of the dataset holds two files
has_many_files(fs, name) ==
    \E f \in DatasetFiles(fs, name), g \in DatasetFiles(fs, name) :
        f # g /\ PartitionOf(f) = PartitionOf(g)

\* the full read of every dataset, as rows
FullRead(fs) ==
    [k \in Range(ALL_EQUEUE_KEYS) |->
        LET df == ReadWhole(fs, k, None)
        IN  IF df = None \/ IsError(df) THEN <<>> ELSE df.rows]

-----------------------------------------------------------------------------
(* data_processing.py: apply_datetime_aggregation *)

\* a pandas frequency string: '5min', 'h', 'd', 'M'
Freq(f) == [freq |-> f]

\* Series.dt.floor(floor_value) on one timestamp; 'M' is not a fixed frequency
dt_floor(t, floor_value) ==
    CASE floor_value.freq = "5min" -> t - (t % 5)
      [] floor_value.freq = "h"    -> t - (t % 60)
      [] floor_value.freq = "d"    -> t - (t % MinutesPerDay)

\* the columns pandas holds as numbers
NumericColumns == {QUEUE_POS_COLUMN, STATUS_COLUMN, QUEUE_TYPE_COLUMN, "vehicle_count", "hours_waited"}

\* the columns pandas holds as str objects
ObjectColumns == {"queue_name", "region"}

\* the str values of the group columns, in Python's order of str
SortedStrings ==
    <<"0", "1", "2", "3", "4", "5", "6", "7", "8", "9",
      "busLiveQueue", "busPriority", "carLiveQueue", "carPriority", "info", "motorcycleLiveQueue",
      "motorcyclePriority", "truckGpk", "truckLiveQueue", "truckPriority", "unknownQueue">>

StrRank(x) == CHOOSE i \in DOMAIN SortedStrings : SortedStrings[i] = x

\* a < b for two values of the column col
ValueLess(col, a, b) ==
    IF col \in ObjectColumns THEN StrRank(a) < StrRank(b) ELSE a < b

RECURSIVE KeyLess(_, _, _)
\* the tuples a < b, as Python orders tuples, over the columns cols
KeyLess(cols, a, b) ==
    IF cols = <<>> THEN FALSE
    ELSE IF a[1] # b[1] THEN ValueLess(cols[1], a[1], b[1])
    ELSE KeyLess(Tail(cols), Tail(a), Tail(b))

KeyOf(row, cols) == [i \in DOMAIN cols |-> row[cols[i]]]

RECURSIVE InsertSorted(_, _, _)
\* row put behind the last row of the sorted rows whose key is not greater
InsertSorted(rows, row, cols) ==
    IF rows = <<>> THEN <<row>>
    ELSE IF KeyLess(cols, KeyOf(row, cols), KeyOf(rows[Len(rows)], cols))
    THEN InsertSorted(SubSeq(rows, 1, Len(rows) - 1), row, cols) \o <<rows[Len(rows)]>>
    ELSE rows \o <<row>>

RECURSIVE sort_values(_, _)
\* DataFrame.sort_values(cols); rows with equal keys keep their order
sort_values(rows, cols) ==
    IF rows = <<>> THEN <<>>
    ELSE InsertSorted(sort_values(SubSeq(rows, 1, Len(rows) - 1), cols), rows[Len(rows)], cols)

RECURSIVE GCD(_, _)
GCD(a, b) == IF b = 0 THEN a ELSE GCD(b, a % b)

\* the exact mean of n numbers with sum s, as a reduced fraction
Fraction(s, n) == [num |-> s \div GCD(s, n), den |-> n \div GCD(s, n)]

\* one reducer of groupby(...).agg on the values of one column of one group, in row order;
\* the numeric reducers skip null cells
Reduce(method, vals) ==
    LET present == SelectSeq(vals, LAMBDA v : v # Null)
    IN  IF method = "first" THEN vals[1]
        ELSE IF present = <<>> THEN np_nan
        ELSE CASE method = "max"  -> CHOOSE v \in Range(present) : \A w \in Range(present) : w <= v
               [] method = "min"  -> CHOOSE v \in Range(present) : \A w \in Range(present) : v <= w
               [] method = "sum"  -> SumSeq(present)
               [] method = "mean" -> Fraction(SumSeq(present), Len(present))

\* DataFrame.drop_duplicates(subset=cols, keep='first')
drop_duplicates(rows, cols) ==
    LET keep == {i \in DOMAIN rows : \A j \in 1..(i - 1) : KeyOf(rows[j], cols) # KeyOf(rows[i], cols)}
    IN  [k \in 1..Cardinality(keep) |->
            rows[CHOOSE i \in keep : Cardinality({j \in keep : j < i}) = k - 1]]

\* the rows of groupby(...).agg(agg_dict): for each group, given by its first row, the
\* group columns and the reduced cells
GroupRows(rows, groups, group_cols, out_cols, agg_dict) ==
    LET members(g) == SelectSeq(rows, LAMBDA r : KeyOf(r, group_cols) = KeyOf(g, group_cols))
        reducer(c) == agg_dict[CHOOSE i \in DOMAIN agg_dict : agg_dict[i][1] = c][2]
        column(m, c) == [i \in DOMAIN m |-> m[i][c]]
        cell(g, c) == IF c \in Range(group_cols) THEN g[c] ELSE Reduce(reducer(c), column(members(g), c))
    IN  [k \in DOMAIN groups |-> [c \in Range(out_cols) |-> cell(groups[k], c)]]

\* groupby(group_cols).agg(agg_dict).reset_index(): one row per group, groups in key order;
\* agg_dict is the sequence of the (column, reducer) pairs of the dict
groupby_agg(rows, group_cols, agg_dict) ==
    DataFrame(group_cols \o [i \in DOMAIN agg_dict |-> agg_dict[i][1]],
              GroupRows(rows, sort_values(drop_duplicates(rows, group_cols), group_cols), group_cols,
                        group_cols \o [i \in DOMAIN agg_dict |-> agg_dict[i][1]], agg_dict))

\* the agg_dict of apply_datetime_aggregation: the given or the numeric columns with their
\* reducers, then the remaining str columns with 'first'
AggDict(columns, group_cols, aggregation_method, value_columns) ==
    LET given == IF value_columns # None /\ value_columns.list # <<>>
                 THEN value_columns.list
                 ELSE LET numeric_cols == SelectSeq(columns, LAMBDA c : c \in NumericColumns)
                      IN  [i \in DOMAIN numeric_cols |-> <<numeric_cols[i], aggregation_method>>]
        non_numeric_cols ==
            SelectSeq(columns, LAMBDA c : /\ c \notin Range(group_cols)
                                          /\ c \notin {given[i][1] : i \in DOMAIN given}
                                          /\ c \in ObjectColumns)
    IN  given \o [i \in DOMAIN non_numeric_cols |-> <<non_numeric_cols[i], "first">>]

\* the groupby(group_cols).agg(agg_dict) of apply_datetime_aggregation
AggregateFloored(columns, floored, group_cols, agg_dict) ==
    IF agg_dict = <<>> THEN DataFrame(columns, floored)
    ELSE IF \E c \in {agg_dict[i][1] : i \in DOMAIN agg_dict} \cup Range(group_cols) : c \notin Range(columns)
    THEN KeyError
    ELSE groupby_agg(floored, group_cols, agg_dict)

\* the rows sorted by time with their times floored
FlooredRows(rows, time_column, floor_value) ==
    LET sorted == sort_values(rows, <<time_column>>)
    IN  [i \in DOMAIN sorted |->
            [sorted[i] EXCEPT ![time_column] = IF floor_value = None THEN @ ELSE dt_floor(@, floor_value)]]

GroupCols(time_column, group_columns) ==
    <<time_column>> \o (IF group_columns = None THEN <<>> ELSE group_columns.list)

\* apply_datetime_aggregation after its two early returns
floor_and_aggregate(df, time_column, floor_value, aggregation_method, group_columns, value_columns) ==
    IF floor_value # None /\ floor_value.freq = "M" THEN ValueError
    ELSE IF aggregation_method = "drop"
    THEN DataFrame(df.columns, drop_duplicates(FlooredRows(df.rows, time_column, floor_value),
                                               GroupCols(time_column, group_columns)))
    ELSE AggregateFloored(df.columns, FlooredRows(df.rows, time_column, floor_value),
                          GroupCols(time_column, group_columns),
                          AggDict(df.columns, GroupCols(time_column, group_columns),
                                  aggregation_method, value_columns))

\* apply_datetime_aggregation returning, for floor_value = None, the sorted copy of df
apply_datetime_aggregation_sorted(df, time_column, floor_value, aggregation_method, group_columns, value_columns) ==
    IF df = None \/ Len(df.rows) = 0 THEN df
    ELSE IF floor_value = None THEN DataFrame(df.columns, sort_values(df.rows, <<time_column>>))
    ELSE floor_and_aggregate(df, time_column, floor_value, aggregation_method, group_columns, value_columns)

apply_datetime_aggregation(df, time_column, floor_value, aggregation_method, group_columns, value_columns) ==
    IF df = None \/ Len(df.rows) = 0 THEN df
    ELSE IF floor_value = None THEN df
    ELSE floor_and_aggregate(df, time_column, floor_value, aggregation_method, group_columns, value_columns)

-----------------------------------------------------------------------------
(* queue_stats.py: the validation of queue names, and get_count *)

\* check_single_queue_name returns the pair (the test, the message)
check_single_queue_name(queue_name) ==
    <<queue_name \in Range(ALL_EQUEUE_KEYS) /\ queue_name # INFO_KEY, "incorrect queue name">>

\* the truth value Python gives a tuple: it is true unless the tuple is empty
TupleTruth(tuple) == Len(tuple) > 0

\* the assertion of check_queue_names holds
check_queue_names(queues_names) ==
    /\ Len(queues_names) > 0
    /\ Len(queues_names) = Cardinality(Range(queues_names))
    /\ \A i \in DOMAIN queues_names : TupleTruth(check_single_queue_name(queues_names[i]))

COUNT_COLUMNS == <<"relative_time", "vehicle_count", "queue_name">>

\* the filters of read_queue without the filter that leaves out the rows with no position
CountReadFilters_unfiltered(filters, n) ==
    IF filters = None THEN PyList(<<>>) ELSE filters

\* the filters list read_queue reads with at its n-th call: a list the caller gave gets
\* one more (queue_pos != nan) at every call, a missing one is made anew
CountReadFilters(filters, n) ==
    LET nan_filter == <<QUEUE_POS_COLUMN, "!=", np_nan>>
    IN  IF filters = None THEN PyList(<<nan_filter>>)
        ELSE PyList(filters.list \o [k \in 1..n |-> nan_filter])

\* queue_df with the name of its queue in the column queue_name
NamedCount(name, grouped) ==
    DataFrame(<<LOAD_DATE_COLUMN, QUEUE_POS_COLUMN, "queue_name">>,
              [i \in DOMAIN grouped.rows |-> WithCols(grouped.rows[i], [queue_name |-> name])])

\* the end of read_queue: the columns renamed and selected, the rows sorted by time
RenamedCount(queue_df) ==
    IF IsError(queue_df) THEN queue_df
    ELSE DataFrame(COUNT_COLUMNS,
                   sort_values([i \in DOMAIN queue_df.rows |->
                                   [relative_time |-> queue_df.rows[i].load_dt,
                                    vehicle_count |-> queue_df.rows[i].queue_pos,
                                    queue_name    |-> queue_df.rows[i].queue_name]],
                               <<"relative_time">>))

\* the time aggregation of read_queue, applied if floor_value is given
AggregatedCount(queue_df, floor_value, aggregation_method) ==
    IF floor_value # None
    THEN apply_datetime_aggregation(queue_df, LOAD_DATE_COLUMN, floor_value, aggregation_method,
                                    PyList(<<"queue_name">>),
                                    PyList(<<<<QUEUE_POS_COLUMN, aggregation_method>>>>))
    ELSE queue_df

\* read_queue from the frame it has read on
QueueCount(name, queue_df, floor_value, aggregation_method) ==
    IF IsError(queue_df) THEN queue_df
    ELSE IF queue_df = None \/ Len(queue_df.rows) = 0 THEN DataFrame(COUNT_COLUMNS, <<>>)
    ELSE RenamedCount(
             AggregatedCount(
                 NamedCount(name, groupby_agg(queue_df.rows, <<LOAD_DATE_COLUMN>>,
                                              <<<<QUEUE_POS_COLUMN, "max">>>>)),
                 floor_value, aggregation_method))

\* get_count.read_queue(name), at the n-th call
read_queue(fs, name, n, filters, floor_value, aggregation_method) ==
    QueueCount(name,
               read_from_parquet(fs, name, CountReadFilters(filters, n), FALSE,
                                 PyList(<<QUEUE_POS_COLUMN, LOAD_DATE_COLUMN>>), 1)[1],
               floor_value, aggregation_method)

\* the results of a sequence of calls up to the first that raises
UpToFirstError(all) ==
    LET bad == {n \in DOMAIN all : IsError(all[n])}
    IN  IF bad = {} THEN all ELSE SubSeq(all, 1, CHOOSE n \in bad : \A m \in bad : n <= m)

\* the frames of the calls read_queue(qname) of get_count, up to the first that raises
CountFrames(fs, queues_names, filters, floor_value, aggregation_method) ==
    UpToFirstError([n \in DOMAIN queues_names |->
                       read_queue(fs, queues_names[n], n, filters, floor_value, aggregation_method)])

\* pd.concat(frames, axis=0), or the error that ended the calls
ConcatCounts(frames) ==
    IF IsError(frames[Len(frames)]) THEN frames[Len(frames)]
    ELSE DataFrame(COUNT_COLUMNS, Concat([n \in DOMAIN frames |-> frames[n].rows]))

\* get_count(queues_names, filters, floor_value, aggregation_method)
get_count(fs, queues_names, filters, floor_value, aggregation_method) ==
    IF ~check_queue_names(queues_names) THEN AssertionError
    ELSE ConcatCounts(CountFrames(fs, queues_names, filters, floor_value, aggregation_method))

-----------------------------------------------------------------------------
(* queue_stats.py: get_waiting_time *)

\* pd.concat(frames, axis=0) of frames with the columns cols, or the error that ended the calls
ConcatFrames(cols, frames) ==
    IF IsError(frames[Len(frames)]) THEN frames[Len(frames)]
    ELSE DataFrame(cols, Concat([n \in DOMAIN frames |-> frames[n].rows]))

WAITING_COLUMNS == <<"relative_time", "hours_waited", "first_vehicle_number", "queue_name">>

\* hours cut to 2 decimals, in hundredths of an hour, of a number of minutes
HoursTruncated(minutes) == (100 * minutes) \div 60

\* round(hw.total_seconds() / 3600, 2), in hundredths of an hour, of a number of minutes
HoursRounded(minutes) == (10 * minutes + 3) \div 6

\* the filters list read_queue reads with at its n-th call: (queue_pos == 1) is appended
\* to the caller's list at every call
WaitReadFilters(filters, n) ==
    LET head_filter == <<QUEUE_POS_COLUMN, "==", 1>>
    IN  IF filters = None THEN PyList(<<head_filter>>)
        ELSE PyList(filters.list \o [k \in 1..n |-> head_filter])

RelativeTimeColumn(relative_time) ==
    IF relative_time = "load" THEN LOAD_DATE_COLUMN ELSE REGISTRATION_DATE_COLUMN

\* queue_df with the columns hours_waited and queue_name
WaitedFrame(name, queue_df) ==
    DataFrame(queue_df.columns \o <<"hours_waited", "queue_name">>,
              [i \in DOMAIN queue_df.rows |->
                  WithCols(queue_df.rows[i],
                           [hours_waited |-> HoursRounded(queue_df.rows[i].load_dt - queue_df.rows[i].reg_date),
                            queue_name   |-> name])])

\* the time aggregation of read_queue, applied if floor_value is given
AggregatedWait(queue_df, relative_time, floor_value, aggregation_method) ==
    IF floor_value # None
    THEN apply_datetime_aggregation(queue_df, RelativeTimeColumn(relative_time), floor_value,
                                    aggregation_method, PyList(<<"queue_name">>),
                                    PyList(<<<<"hours_waited", aggregation_method>>,
                                             <<CAR_NUMBER_COLUMN, "first">>>>))
    ELSE queue_df

\* the end of read_queue: the columns renamed and selected, the rows sorted by time
RenamedWait(queue_df, relative_time) ==
    IF IsError(queue_df) THEN queue_df
    ELSE DataFrame(WAITING_COLUMNS,
                   sort_values([i \in DOMAIN queue_df.rows |->
                                   [relative_time        |-> queue_df.rows[i][RelativeTimeColumn(relative_time)],
                                    hours_waited         |-> queue_df.rows[i].hours_waited,
                                    first_vehicle_number |-> queue_df.rows[i].car_number,
                                    queue_name           |-> queue_df.rows[i].queue_name]],
                               <<"relative_time">>))

\* read_queue from the frame it has read on
QueueWait(name, queue_df, relative_time, floor_value, aggregation_method) ==
    IF IsError(queue_df) THEN queue_df
    ELSE IF queue_df = None \/ Len(queue_df.rows) = 0 THEN DataFrame(WAITING_COLUMNS, <<>>)
    ELSE RenamedWait(AggregatedWait(WaitedFrame(name, queue_df), relative_time, floor_value,
                                    aggregation_method),
                     relative_time)

\* get_waiting_time.read_queue(name), at the n-th call
read_queue_wait(fs, name, n, relative_time, filters, floor_value, aggregation_method) ==
    QueueWait(name,
              read_from_parquet(fs, name, WaitReadFilters(filters, n), FALSE,
                                PyList(<<REGISTRATION_DATE_COLUMN, LOAD_DATE_COLUMN, CAR_NUMBER_COLUMN>>),
                                1)[1],
              relative_time, floor_value, aggregation_method)

\* the frames of the calls read_queue(qname) of get_waiting_time, up to the first that raises
WaitFrames(fs, queues_names, relative_time, filters, floor_value, aggregation_method) ==
    UpToFirstError([n \in DOMAIN queues_names |->
                       read_queue_wait(fs, queues_names[n], n, relative_time, filters, floor_value,
                                       aggregation_method)])

\* get_waiting_time(queues_names, relative_time, filters, floor_value, aggregation_method):
\* the reads run only after both assertions
WaitingTimeChecked(queues_names, relative_time) ==
    check_queue_names(queues_names) /\ relative_time \in {"reg", "load"}

get_waiting_time(fs, queues_names, relative_time, filters, floor_value, aggregation_method) ==
    IF ~WaitingTimeChecked(queues_names, relative_time) THEN AssertionError
    ELSE ConcatFrames(WAITING_COLUMNS,
                      WaitFrames(fs, queues_names, relative_time, filters, floor_value,
                                 aggregation_method))

-----------------------------------------------------------------------------
(* queue_stats.py: get_count_by_regions *)

UpperLetters ==
    {"A", "B", "C", "D", "E", "F", "G", "H", "I", "J", "K", "L", "M", "N", "O", "P", "Q", "R",
     "S", "T", "U", "V", "W", "X", "Y", "Z"}

\* BELARUS_CAR_NUMBER_FORMAT.match(cn): ^(\d){4}[A-Z]{2}(\d){1}$
BELARUS_CAR_NUMBER_FORMAT(cn) ==
    /\ Len(cn) = 7
    /\ \A i \in {1, 2, 3, 4, 7} : cn[i] \in Range(Digits)
    /\ \A i \in {5, 6} : cn[i] \in UpperLetters

BELARUS_REGIONS_MAP ==
    [d \in {"1", "2", "3", "4", "5", "6", "7", "8"} |->
        CASE d = "1" -> "Brest Region"
          [] d = "2" -> "Vitebsk Region"
          [] d = "3" -> "Gomel Region"
          [] d = "4" -> "Grodno Region"
          [] d = "5" -> "Minsk Region"
          [] d = "6" -> "Mogilev Region"
          [] d \in {"7", "8"} -> "Minsk City"]

\* the None cell of the str column region
NoneRegion == "None"

REGION_COLUMNS == <<"relative_time", "vehicle_count", "region">>

\* queue_df with the column region: the last character of a plate of the format, else None
RegionFrame(queue_df) ==
    DataFrame(queue_df.columns \o <<"region">>,
              [i \in DOMAIN queue_df.rows |->
                  WithCols(queue_df.rows[i],
                           [region |-> IF BELARUS_CAR_NUMBER_FORMAT(queue_df.rows[i].car_number)
                                       THEN queue_df.rows[i].car_number[7]
                                       ELSE NoneRegion])])

\* the reducers SeriesGroupBy.aggregate applies to a column of str; the mean of strings
\* raises
StrReducers == {"count", "sum", "max", "min", "first"}

\* SeriesGroupBy.aggregate(how) on the plates of one group: count counts them, sum joins
\* the strings, max, min and first give one of them (the only one, where the group has
\* one row)
RegionReduce(how, plates) ==
    CASE how = "count"                   -> Len(plates)
      [] how = "sum"                     -> Concat(plates)
      [] how \in {"max", "min", "first"} -> plates[1]

\* groupby(by=[load_dt, 'region']).aggregate({car_number: how}).reset_index(): one row per
\* (load_dt, region) in key order; groupby leaves out the rows whose region is None
RegionGroups(df, how) ==
    IF IsError(df) THEN df
    ELSE LET keyed   == SelectSeq(df.rows, LAMBDA r : r.region # NoneRegion)
             group_cols == <<LOAD_DATE_COLUMN, "region">>
             groups  == sort_values(drop_duplicates(keyed, group_cols), group_cols)
             plates(g) == LET m == SelectSeq(keyed, LAMBDA r : KeyOf(r, group_cols) = KeyOf(g, group_cols))
                          IN  [i \in DOMAIN m |-> m[i].car_number]
             out     == [k \in DOMAIN groups |->
                            [load_dt |-> groups[k].load_dt, region |-> groups[k].region,
                             car_number |-> RegionReduce(how, plates(groups[k]))]]
         IN  IF groups # <<>> /\ how \notin StrReducers THEN TypeError
             ELSE DataFrame(<<LOAD_DATE_COLUMN, "region", CAR_NUMBER_COLUMN>>, out)

\* the branch taken with a floor_value: duplicates of (load_dt, car_number) dropped, the
\* times floored with the reducer 'drop' grouped by region
RegionDecimated(df, floor_value) ==
    apply_datetime_aggregation(
        DataFrame(df.columns, drop_duplicates(df.rows, <<LOAD_DATE_COLUMN, CAR_NUMBER_COLUMN>>)),
        LOAD_DATE_COLUMN, floor_value, "drop", PyList(<<"region">>),
        PyList(<<<<CAR_NUMBER_COLUMN, "count">>>>))

\* the end of get_count_by_regions: the columns renamed, the regions named by the table
\* ('other' for a key it does not hold), the rows sorted by time
RenamedRegions(queue_df) ==
    IF IsError(queue_df) THEN queue_df
    ELSE DataFrame(REGION_COLUMNS,
                   sort_values([i \in DOMAIN queue_df.rows |->
                                   [relative_time |-> queue_df.rows[i].load_dt,
                                    vehicle_count |-> queue_df.rows[i].car_number,
                                    region |-> IF queue_df.rows[i].region \in DOMAIN BELARUS_REGIONS_MAP
                                               THEN BELARUS_REGIONS_MAP[queue_df.rows[i].region]
                                               ELSE "other"]],
                               <<"relative_time">>))

\* get_count_by_regions from the frame it has read on
RegionCount(queue_df, floor_value, aggregation_method) ==
    IF IsError(queue_df) THEN queue_df
    ELSE IF queue_df = None \/ Len(queue_df.rows) = 0 THEN DataFrame(REGION_COLUMNS, <<>>)
    ELSE IF floor_value # None
    THEN RenamedRegions(RegionGroups(RegionDecimated(RegionFrame(queue_df), floor_value),
                                     aggregation_method))
    ELSE RenamedRegions(RegionGroups(RegionFrame(queue_df), "count"))

\* get_count_by_regions(queue_name, filters, floor_value, aggregation_method)
get_count_by_regions(fs, queue_name, filters, floor_value, aggregation_method) ==
    IF ~TupleTruth(check_single_queue_name(queue_name)) THEN AssertionError
    ELSE RegionCount(read_from_parquet(fs, queue_name, CountReadFilters(filters, 1), FALSE,
                                       PyList(<<CAR_NUMBER_COLUMN, LOAD_DATE_COLUMN>>), 1)[1],
                     floor_value, aggregation_method)


-----------------------------------------------------------------------------
(* queue_stats.py: get_registered_count, get_called_count and
   get_single_vehicle_registrations_count *)

\* filters_to_expression(filters) & expr, or expr alone: a new expression, the conjunction
AndExpression(filters, expr) ==
    PyList((IF filters = None THEN <<>> ELSE filters.list) \o <<expr>>)

\* the rows of groupby(time_column).count() of the rows, in key order, as the renamed columns
CountedByTime(name, rows, time_column) ==
    LET groups == sort_values(drop_duplicates(rows, <<time_column>>), <<time_column>>)
    IN  [k \in DOMAIN groups |->
            [relative_time |-> groups[k][time_column],
             vehicle_count |-> Len(SelectSeq(rows, LAMBDA r : r[time_column] = groups[k][time_column])),
             queue_name    |-> name]]

\* queue_df[time_column].apply(lambda t: t.floor(floor_value))
FlooredTimes(rows, time_column, floor_value) ==
    [i \in DOMAIN rows |-> [rows[i] EXCEPT ![time_column] = dt_floor(@, floor_value)]]

\* read_queue counting every row read, duplicates included
ThroughputQueue_every_row(name, queue_df, time_column, floor_value) ==
    IF IsError(queue_df) THEN queue_df
    ELSE IF queue_df = None THEN AttributeError
    ELSE IF Len(queue_df.rows) > 0 /\ floor_value.freq = "M" THEN ValueError
    ELSE DataFrame(COUNT_COLUMNS,
                   CountedByTime(name, FlooredTimes(queue_df.rows, time_column, floor_value),
                                 time_column))

\* read_queue of get_registered_count and get_called_count from the frame it has read on:
\* drop_duplicates is called on what the read gave, Timestamp.floor on every time
ThroughputQueue(name, queue_df, time_column, floor_value) ==
    IF IsError(queue_df) THEN queue_df
    ELSE IF queue_df = None THEN AttributeError
    ELSE IF Len(queue_df.rows) > 0 /\ floor_value.freq = "M" THEN ValueError
    ELSE DataFrame(COUNT_COLUMNS,
                   CountedByTime(name,
                                 FlooredTimes(drop_duplicates(queue_df.rows, <<time_column, CAR_NUMBER_COLUMN>>),
                                              time_column, floor_value),
                                 time_column))

\* the frames of [read_queue(qname) for qname in queues_names] up to the first that raises
ThroughputFrames(fs, queues_names, filters, floor_value, status, time_column) ==
    LET frame(n) == ThroughputQueue(
                        queues_names[n],
                        read_from_parquet(fs, queues_names[n],
                                          AndExpression(filters, <<STATUS_COLUMN, "==", status>>),
                                          FALSE, PyList(<<time_column, CAR_NUMBER_COLUMN>>), 1)[1],
                        time_column, floor_value)
        raised == {n \in DOMAIN queues_names : IsError(frame(n))}
        last   == IF raised = {} THEN Len(queues_names)
                  ELSE CHOOSE n \in raised : \A m \in raised : n <= m
    IN  [n \in 1..last |-> frame(n)]

\* the vehicles with the status 2, counted by the time of their registration
get_registered_count(fs, queues_names, filters, floor_value) ==
    IF ~check_queue_names(queues_names) THEN AssertionError
    ELSE ConcatFrames(COUNT_COLUMNS,
                      ThroughputFrames(fs, queues_names, filters, floor_value, 2,
                                       REGISTRATION_DATE_COLUMN))

\* the vehicles with the status 3, counted by the time their status changed
get_called_count(fs, queues_names, filters, floor_value) ==
    IF ~check_queue_names(queues_names) THEN AssertionError
    ELSE ConcatFrames(COUNT_COLUMNS,
                      ThroughputFrames(fs, queues_names, filters, floor_value, 3,
                                       CHANGED_DATE_COLUMN))

REGISTRATIONS_COLUMNS == <<"vehicle_count", "count_of_registrations">>

\* tuple is True, the identity test of a tuple against the object True: a tuple is not that
\* object, whatever it holds
TupleIsTrue(tuple) == FALSE

\* groupby(car_number).count() and then groupby(registration_date).count() of the frame
\* read without duplicates: how many vehicles have how many registrations
RegistrationsHistogram(queue_df) ==
    IF IsError(queue_df) THEN queue_df
    ELSE IF queue_df = None THEN AttributeError
    ELSE LET rows     == drop_duplicates(queue_df.rows, <<CAR_NUMBER_COLUMN, REGISTRATION_DATE_COLUMN>>)
             vehicles == drop_duplicates(rows, <<CAR_NUMBER_COLUMN>>)
             times(v) == Len(SelectSeq(rows, LAMBDA r : r.car_number = v.car_number))
             counts   == {times(vehicles[i]) : i \in DOMAIN vehicles}
         IN  DataFrame(REGISTRATIONS_COLUMNS,
                       [k \in 1..Cardinality(counts) |->
                           LET c == CHOOSE c \in counts : Cardinality({d \in counts : d < c}) = k - 1
                           IN  [vehicle_count |-> Cardinality({i \in DOMAIN vehicles : times(vehicles[i]) = c}),
                                count_of_registrations |-> c]])

\* get_single_vehicle_registrations_count(queue_name, filters) with has_been_called=False:
\* the assertion wants the pair check_single_queue_name returns to be the object True
get_single_vehicle_registrations_count(fs, queue_name, filters) ==
    IF ~TupleIsTrue(check_single_queue_name(queue_name)) THEN AssertionError
    ELSE RegistrationsHistogram(
             read_from_parquet(fs, queue_name, filters, FALSE,
                               PyList(<<CAR_NUMBER_COLUMN, REGISTRATION_DATE_COLUMN>>), 1)[1])


-----------------------------------------------------------------------------
(* queue_stats.py: get_number_of_declined_vehicles *)

DECLINED_READ_COLUMNS == <<LOAD_DATE_COLUMN, CAR_NUMBER_COLUMN, "queue_name">>

\* the rows read without the duplicates of (load_dt, car_number), tagged with the queue
DeclinedTagged(name, queue_df) ==
    DataFrame(DECLINED_READ_COLUMNS,
              [i \in DOMAIN drop_duplicates(queue_df.rows, <<LOAD_DATE_COLUMN, CAR_NUMBER_COLUMN>>) |->
                  [load_dt    |-> drop_duplicates(queue_df.rows, <<LOAD_DATE_COLUMN, CAR_NUMBER_COLUMN>>)[i].load_dt,
                   car_number |-> drop_duplicates(queue_df.rows, <<LOAD_DATE_COLUMN, CAR_NUMBER_COLUMN>>)[i].car_number,
                   queue_name |-> name]])

\* groupby([load_dt, 'queue_name']).aggregate({car_number: how}).reset_index(), and
\* .count() for how = 'count': one row per (load_dt, queue_name) in key order
DeclinedGroups(df, how) ==
    IF IsError(df) THEN df
    ELSE IF df.rows # <<>> /\ how \notin StrReducers THEN TypeError
    ELSE DataFrame(DECLINED_READ_COLUMNS,
                   [k \in DOMAIN sort_values(drop_duplicates(df.rows, <<LOAD_DATE_COLUMN>>), <<LOAD_DATE_COLUMN>>) |->
                       LET g == sort_values(drop_duplicates(df.rows, <<LOAD_DATE_COLUMN>>), <<LOAD_DATE_COLUMN>>)[k]
                           m == SelectSeq(df.rows, LAMBDA r : r.load_dt = g.load_dt)
                       IN  [load_dt |-> g.load_dt, queue_name |-> g.queue_name,
                            car_number |-> RegionReduce(how, [i \in DOMAIN m |-> m[i].car_number])]])

\* the end of read_queue: the columns renamed, the rows sorted by time
RenamedDeclined(queue_df) ==
    IF IsError(queue_df) THEN queue_df
    ELSE DataFrame(COUNT_COLUMNS,
                   sort_values([i \in DOMAIN queue_df.rows |->
                                   [relative_time |-> queue_df.rows[i].load_dt,
                                    vehicle_count |-> queue_df.rows[i].car_number,
                                    queue_name    |-> queue_df.rows[i].queue_name]],
                               <<"relative_time">>))

\* read_queue of get_number_of_declined_vehicles from the frame it has read on
DeclinedQueue(name, queue_df, floor_value, aggregation_method) ==
    IF IsError(queue_df) THEN queue_df
    ELSE IF queue_df = None \/ Len(queue_df.rows) = 0 THEN DataFrame(COUNT_COLUMNS, <<>>)
    ELSE IF floor_value # None
    THEN RenamedDeclined(
             DeclinedGroups(apply_datetime_aggregation(
                                DeclinedTagged(name, queue_df), LOAD_DATE_COLUMN, floor_value, "drop",
                                PyList(<<"queue_name">>), PyList(<<<<CAR_NUMBER_COLUMN, "count">>>>)),
                            aggregation_method))
    ELSE RenamedDeclined(DeclinedGroups(DeclinedTagged(name, queue_df), "count"))

\* the frames of [read_queue(qname) for qname in queues_names] up to the first that raises
DeclinedFrames(fs, queues_names, filters, floor_value, aggregation_method) ==
    LET frame(n) == DeclinedQueue(
                        queues_names[n],
                        read_from_parquet(fs, queues_names[n],
                                          AndExpression(filters, <<STATUS_COLUMN, "==", 9>>),
                                          FALSE, PyList(<<LOAD_DATE_COLUMN, CAR_NUMBER_COLUMN>>), 1)[1],
                        floor_value, aggregation_method)
        raised == {n \in DOMAIN queues_names : IsError(frame(n))}
        last   == IF raised = {} THEN Len(queues_names)
                  ELSE CHOOSE n \in raised : \A m \in raised : n <= m
    IN  [n \in 1..last |-> frame(n)]

\* get_number_of_declined_vehicles(queues_names, filters, floor_value, aggregation_method),
\* time_range not given
get_number_of_declined_vehicles(fs, queues_names, filters, floor_value, aggregation_method) ==
    IF ~check_queue_names(queues_names) THEN AssertionError
    ELSE ConcatFrames(COUNT_COLUMNS,
                      DeclinedFrames(fs, queues_names, filters, floor_value, aggregation_method))


-----------------------------------------------------------------------------
(* queue_stats.py: get_called_vehicles_waiting_time *)

CALLED_COLUMNS == <<"relative_time", "waiting_after_called", "queue_name">>
CALLED_READ_COLUMNS ==
    <<CAR_NUMBER_COLUMN, REGISTRATION_DATE_COLUMN, STATUS_COLUMN, CHANGED_DATE_COLUMN, LOAD_DATE_COLUMN>>
VISIT_COLUMNS == <<CAR_NUMBER_COLUMN, REGISTRATION_DATE_COLUMN>>

\* the reducer aggregation_type on times: the earliest or the latest of them
ReduceTimes(aggregation_type, times) ==
    CASE aggregation_type = "min" -> CHOOSE t \in Range(times) : \A u \in Range(times) : t <= u
      [] aggregation_type = "max" -> CHOOSE t \in Range(times) : \A u \in Range(times) : u <= t

\* groupby([car_number, registration_date]).aggregate({status: any(st == 9),
\* changed_date: 'min', load_dt: aggregation_type}): one row per visit
VisitRow(rows, visit, aggregation_type) ==
    [car_number   |-> visit.car_number,
     reg_date     |-> visit.reg_date,
     status       |-> \E i \in DOMAIN rows : KeyOf(rows[i], VISIT_COLUMNS) = KeyOf(visit, VISIT_COLUMNS)
                                             /\ rows[i].status = 9,
     changed_date |-> ReduceTimes("min",
                          [i \in DOMAIN SelectSeq(rows, LAMBDA r : KeyOf(r, VISIT_COLUMNS) = KeyOf(visit, VISIT_COLUMNS)) |->
                              SelectSeq(rows, LAMBDA r : KeyOf(r, VISIT_COLUMNS) = KeyOf(visit, VISIT_COLUMNS))[i].changed_date]),
     load_dt      |-> ReduceTimes(aggregation_type,
                          [i \in DOMAIN SelectSeq(rows, LAMBDA r : KeyOf(r, VISIT_COLUMNS) = KeyOf(visit, VISIT_COLUMNS)) |->
                              SelectSeq(rows, LAMBDA r : KeyOf(r, VISIT_COLUMNS) = KeyOf(visit, VISIT_COLUMNS))[i].load_dt])]

\* the visits of the rows without a canceled row
VisitsKept(rows, aggregation_type) ==
    SelectSeq([k \in DOMAIN drop_duplicates(rows, VISIT_COLUMNS) |->
                  VisitRow(rows, drop_duplicates(rows, VISIT_COLUMNS)[k], aggregation_type)],
              LAMBDA v : v.status = FALSE)

\* round(mw.total_seconds() / 60, 2) of the time from changed to load: whole minutes here
MinutesWaited(load, changed) == load - changed

\* groupby(changed_date).aggregate({load_dt: aggregation_type}) of the visits, the waiting
\* time, the queue name, the renamed columns, sorted by time
CalledWait(name, visits, aggregation_type) ==
    DataFrame(CALLED_COLUMNS,
              [k \in DOMAIN sort_values(drop_duplicates(visits, <<CHANGED_DATE_COLUMN>>), <<CHANGED_DATE_COLUMN>>) |->
                  LET c == sort_values(drop_duplicates(visits, <<CHANGED_DATE_COLUMN>>), <<CHANGED_DATE_COLUMN>>)[k].changed_date
                      m == SelectSeq(visits, LAMBDA v : v.changed_date = c)
                  IN  [relative_time |-> c,
                       waiting_after_called |->
                           MinutesWaited(ReduceTimes(aggregation_type, [i \in DOMAIN m |-> m[i].load_dt]), c),
                       queue_name |-> name]])

\* read_queue of get_called_vehicles_waiting_time from the frame floored on
CalledFloored(name, queue_df, aggregation_type) ==
    IF IsError(queue_df) THEN queue_df
    ELSE CalledWait(name, VisitsKept(queue_df.rows, aggregation_type), aggregation_type)

\* read_queue of get_called_vehicles_waiting_time from the frame it has read on
CalledQueue(name, queue_df, aggregation_type, floor_value) ==
    IF IsError(queue_df) THEN queue_df
    ELSE IF queue_df = None \/ Len(queue_df.rows) = 0 THEN DataFrame(CALLED_COLUMNS, <<>>)
    ELSE CalledFloored(name,
                       apply_datetime_aggregation(
                           queue_df, CHANGED_DATE_COLUMN, floor_value, "drop", PyList(VISIT_COLUMNS),
                           PyList(<<<<LOAD_DATE_COLUMN, "first">>, <<STATUS_COLUMN, "first">>>>)),
                       aggregation_type)

\* the frames of [read_queue(qname) for qname in queues_names] up to the first that raises
CalledFrames(fs, queues_names, filters, aggregation_type, floor_value) ==
    LET frame(n) == CalledQueue(
                        queues_names[n],
                        read_from_parquet(fs, queues_names[n],
                                          AndExpression(filters, <<QUEUE_POS_COLUMN, "is_null", Null>>),
                                          FALSE, PyList(CALLED_READ_COLUMNS), 1)[1],
                        aggregation_type, floor_value)
        raised == {n \in DOMAIN queues_names : IsError(frame(n))}
        last   == IF raised = {} THEN Len(queues_names)
                  ELSE CHOOSE n \in raised : \A m \in raised : n <= m
    IN  [n \in 1..last |-> frame(n)]

\* get_called_vehicles_waiting_time(queues_names, filters, aggregation_type, floor_value),
\* time_range not given: the assertion on aggregation_type follows check_queue_names
get_called_vehicles_waiting_time(fs, queues_names, filters, aggregation_type, floor_value) ==
    IF ~check_queue_names(queues_names) THEN AssertionError
    ELSE IF aggregation_type \notin {"max", "min", "mean"} THEN AssertionError
    ELSE ConcatFrames(CALLED_COLUMNS,
                      CalledFrames(fs, queues_names, filters, aggregation_type, floor_value))

-----------------------------------------------------------------------------
(* The inputs *)

MaxDumps == 2
\* compactions start while fewer than MaxGuid - 1 files have ever been written
MaxGuid == 8

Seeds == {0, 1}

T1 == 10 * 60
T2 == T1 + 10
T3 == MinutesPerMonth + T1
LoadTimes == {T1, T2, T3}

Info(id, nameEn) ==
    [id |-> id, nameEn |-> nameEn, address |-> <<"x">>, phone |-> <<"p">>, isBts |-> 1,
     name |-> <<"n">>]

\* two Checkpoint Infos that differ in id and English name
Infos ==
    {Info(<<"a", "_", "b">>, <<"c">>),
     Info(<<"a">>, <<"b", "_", "c">>)}

Entity(regnum, status, order_id, reg_t, chg_t) ==
    [regnum |-> regnum, status |-> status, order_id |-> order_id, type_queue |-> 3,
     registration_date |-> TimeString(ENTITY_FORMAT, reg_t),
     changed_date |-> TimeString(ENTITY_FORMAT, chg_t)]

PlateA == <<"1", "2", "3", "4", "A", "B", "5">>
PlateB == <<"7", "8", "7", "6", "K", "K", "1">>
PlateC == <<"A", "M", "2", "0", "3", "5", "4">>

CarEntities ==
    <<Entity(PlateA, 2, 1, T1 - 60, T1 - 60),
      Entity(PlateB, 2, 2, T1 - 30, T1 - 30),
      Entity(PlateC, 3, Null, T1 - 90, T1 - 5)>>

BusEntities == <<Entity(PlateC, 2, 1, T1 - 120, T1 - 120)>>

\* the (carLiveQueue, busLiveQueue) lists a snapshot carries
QueueChoices == {<<<<>>, <<>>>>, <<CarEntities, BusEntities>>}

Snapshot(t, info, car, bus) ==
    [k \in {"datetime"} \cup Range(ALL_EQUEUE_KEYS) |->
        CASE k = "datetime"           -> TimeString(LOAD_FORMAT, t)
          [] k = INFO_KEY             -> info
          [] k = CAR_LIVE_QUEUE_KEY   -> car
          [] k = BUS_LIVE_QUEUE_KEY   -> bus
          [] OTHER                    -> <<>>]

Snapshots == {Snapshot(t, i, q[1], q[2]) : t \in LoadTimes, i \in Infos, q \in QueueChoices}

LoadTimeOf(data) == strptime(data.datetime, LOAD_FORMAT)

\* the lists of the snapshots dumped before reads and queries: also a car queue whose only
\* entry has no position
ReadQueueChoices == QueueChoices \cup {<<<<CarEntities[3]>>, BusEntities>>}

\* the snapshots dumped before reads and queries
ReadSnapshots ==
    {Snapshot(t, Info(<<"a">>, <<"b">>), q[1], q[2]) : t \in {T1, T3}, q \in ReadQueueChoices}

ReadNames == {CAR_LIVE_QUEUE_KEY, TRUCK_GPK_KEY}
ReadFilters ==
    {None, PyList(<<<<LOAD_DATE_COLUMN, "=", T1>>>>), PyList(<<<<YEAR_COLUMN, "=", BaseYear>>, <<MONTH_COLUMN, "=", 2>>>>)}
ReadColumns == {None, PyList(<<LOAD_DATE_COLUMN>>)}
BatchSizes == {2}

\* the snapshots dumped before head-waiting-time queries: two of them 10 minutes apart
WaitSnapshots ==
    {Snapshot(t, Info(<<"a">>, <<"b">>), q[1], q[2]) : t \in {T1, T2}, q \in ReadQueueChoices}
WaitNameLists == {<<CAR_LIVE_QUEUE_KEY>>, <<BUS_LIVE_QUEUE_KEY, CAR_LIVE_QUEUE_KEY>>}
RelativeTimes == {"reg", "load", "registration"}
WaitFilters == {None, PyList(<<<<LOAD_DATE_COLUMN, ">=", T2>>>>)}

\* raw snapshots as the fetcher may hand them over: a well-formed one and its malformed
\* variants, at the load time t
RawSnapshot(t) == Snapshot(t, Info(<<"a">>, <<"b">>), <<CarEntities[1], CarEntities[2]>>, <<>>)
Without(f, key) == [k \in DOMAIN f \ {key} |-> f[k]]
MalformedSnapshots ==
    UNION {LET S == RawSnapshot(t)
           IN  {Without(S, "datetime"),
                [S EXCEPT !["datetime"] = TimeString(ENTITY_FORMAT, t)],
                Without(S, INFO_KEY),
                [S EXCEPT ![INFO_KEY] = Without(@, "phone")],
                Without(S, MOTORCYCLE_PRIORITY_KEY),
                [S EXCEPT ![CAR_LIVE_QUEUE_KEY][2] = Without(@, "regnum")],
                [S EXCEPT ![CAR_LIVE_QUEUE_KEY][2] = Without(@, "changed_date")],
                [S EXCEPT ![CAR_LIVE_QUEUE_KEY][2].registration_date = TimeString(LOAD_FORMAT, t - 30)],
                [S EXCEPT ![CAR_LIVE_QUEUE_KEY][2].changed_date = TimeString(LOAD_FORMAT, t - 30)]}
           : t \in {T1, T2}}
RawSnapshots == {RawSnapshot(t) : t \in LoadTimes} \cup MalformedSnapshots

\* snapshots with vehicles that were called or canceled: a visit of PlateA that is called,
\* one of PlateB that is called and then canceled, one of PlateC that is canceled
CalledEntities ==
    [t \in {T1, T2} |->
        IF t = T1
        THEN <<Entity(PlateA, 3, Null, T1 - 60, T1 - 5), Entity(PlateB, 3, Null, T1 - 30, T1 - 5),
               Entity(PlateC, 9, Null, T1 - 90, T1 - 10)>>
        ELSE <<Entity(PlateA, 3, Null, T1 - 60, T1 - 5), Entity(PlateB, 9, Null, T1 - 30, T1 + 2),
               Entity(PlateC, 9, Null, T1 - 90, T1 - 10)>>]
CalledSnapshots ==
    {Snapshot(t, Info(<<"a">>, <<"b">>), CalledEntities[t], <<>>) : t \in {T1, T2}}
        \cup {Snapshot(t, Info(<<"a">>, <<"b">>), q[1], q[2]) : t \in {T1, T2}, q \in QueueChoices}

\* snapshots of two months
PartitionSnapshots ==
    {Snapshot(t, Info(<<"a">>, <<"b">>), CarEntities, BusEntities) : t \in {T1, T2, T3}}

\* snapshots for the regional breakdown: also two vehicles of one region, seen at two
\* load times of one hour
PlateD == <<"5", "6", "7", "8", "C", "D", "5">>
RegionSnapshots ==
    ReadSnapshots
        \cup {Snapshot(t, Info(<<"a">>, <<"b">>),
                       <<CarEntities[1], Entity(PlateD, 2, 2, T1 - 30, T1 - 30)>>, <<>>) : t \in {T1, T2}}
RegionQueueNames == {CAR_LIVE_QUEUE_KEY, BUS_LIVE_QUEUE_KEY, TRUCK_GPK_KEY}
RegionFloorValues == {None, Freq("h"), Freq("M")}
RegionMethods == {"sum", "count", "mean"}

UNKNOWN_QUEUE == "unknownQueue"

ThroughputNameLists ==
    {<<CAR_LIVE_QUEUE_KEY>>, <<CAR_LIVE_QUEUE_KEY, TRUCK_GPK_KEY>>, <<UNKNOWN_QUEUE>>}
ThroughputFloorValues == {Freq("h"), Freq("d")}
QueueNameLists ==
    {<<>>, <<CAR_LIVE_QUEUE_KEY>>, <<CAR_LIVE_QUEUE_KEY, CAR_LIVE_QUEUE_KEY>>, <<INFO_KEY>>,
     <<UNKNOWN_QUEUE>>, <<CAR_LIVE_QUEUE_KEY, UNKNOWN_QUEUE>>,
     <<BUS_LIVE_QUEUE_KEY, CAR_LIVE_QUEUE_KEY>>}
CountFilters == {None, PyList(<<<<LOAD_DATE_COLUMN, ">=", T3>>>>)}
FloorValues == {None, Freq("5min"), Freq("h"), Freq("d"), Freq("M")}
AggregationMethods == {"mean", "max", "min", "drop"}

\* the frames given to apply_datetime_aggregation: at most MaxRows rows
MaxRows == 2
AggRow(t, pos, name) == [load_dt |-> t, queue_pos |-> pos, status |-> 2, queue_name |-> name]
AggRows ==
    {AggRow(T2, 2, CAR_LIVE_QUEUE_KEY), AggRow(T1, 1, CAR_LIVE_QUEUE_KEY),
     AggRow(T1 + 3, 3, CAR_LIVE_QUEUE_KEY), AggRow(T1, 2, BUS_LIVE_QUEUE_KEY),
     AggRow(T1 + 70, 1, BUS_LIVE_QUEUE_KEY), AggRow(T3, 4, CAR_LIVE_QUEUE_KEY)}
AGG_COLUMNS == <<LOAD_DATE_COLUMN, QUEUE_POS_COLUMN, STATUS_COLUMN, "queue_name">>
AggFrames ==
    {None} \cup {DataFrame(AGG_COLUMNS, rows) : rows \in UNION {[1..n -> AggRows] : n \in 0..MaxRows}}
GroupColumns == {None, PyList(<<"queue_name">>)}
ValueColumns ==
    {None, PyList(<<<<QUEUE_POS_COLUMN, "max">>>>),
     PyList(<<<<QUEUE_POS_COLUMN, "max">>, <<STATUS_COLUMN, "min">>>>)}

-----------------------------------------------------------------------------
(* The store as a state machine *)

Store == [files |-> files, dirs |-> dirs, guid |-> nextGuid]

NoOp == [kind |-> "none"]

InitStore ==
    /\ files = {}
    /\ dirs = {}
    /\ rootExists = FALSE
    /\ tmpFiles = {}
    /\ tmpDirs = {}
    /\ tmpExists = FALSE
    /\ nextGuid = 1
    /\ seed = 0
    /\ cpc = "idle"
    /\ cidx = 0
    /\ wpc = "idle"
    /\ widx = 0
    /\ wdata = None
    /\ ndumps = 0
    /\ now = 0
    /\ res = None
    /\ appended = [k \in Range(ALL_EQUEUE_KEYS) |-> <<>>]
    /\ seenInfos = {}

Init == InitStore /\ op = NoOp

\* no compaction and no dump is under way
Quiet == cpc \in {"idle", "done", "failed", "crashed"} /\ wpc = "idle"

\* a new Python process starts (one run of a script) and draws its hash seed
StartRun(sd) ==
    /\ Quiet
    /\ ndumps < MaxDumps
    /\ seed' = sd
    /\ UNCHANGED <<files, dirs, rootExists, tmpFiles, tmpDirs, tmpExists, nextGuid,
                   cpc, cidx, wpc, widx, wdata, ndumps, now, op, res, appended, seenInfos>>


\* no stored row has the load time t
FreshLoadTime(t) ==
    \A k \in DOMAIN appended : \A i \in DOMAIN appended[k] : appended[k][i].load_dt # t

\* the store after a dump is S2
StoreBecomes(S2) ==
    /\ files' = S2.files
    /\ dirs' = S2.dirs
    /\ nextGuid' = S2.guid
    /\ appended' = AppendedAfter(appended, S2.files \ files)

\* dump_to_parquet(data), with nothing else running
DumpToParquet(data) ==
    /\ Quiet
    /\ ndumps < MaxDumps
    /\ LoadTimeOf(data) >= now
    /\ ndumps' = ndumps + 1
    /\ now' = LoadTimeOf(data)
    /\ rootExists' = TRUE
    /\ op' = [kind |-> "dump", data |-> data, fresh |-> FreshLoadTime(LoadTimeOf(data))]
    /\ seenInfos' = seenInfos \cup {data[INFO_KEY]}
    /\ IF InfoReadRaises(files)
       THEN /\ res' = ArrowInvalid
            /\ dirs' = dirs \cup {DatasetDir(INFO_KEY)}
            /\ UNCHANGED <<files, nextGuid, appended>>
       ELSE /\ StoreBecomes(dump_to_parquet(Store, data, seed))
            /\ res' = None
    /\ UNCHANGED <<tmpFiles, tmpDirs, tmpExists, seed, cpc, cidx, wpc, widx, wdata>>

\* read_from_parquet(name, filters, in_batches=..., columns=..., batch_size=...), consumed whole
ReadFromParquet(name, filters, in_batches, columns, batch_size) ==
    /\ Quiet
    /\ op' = [kind |-> "read", name |-> name, filters |-> filters, in_batches |-> in_batches,
              columns |-> columns, batch_size |-> batch_size]
    /\ res' = read_from_parquet(files, name, filters, in_batches, columns, batch_size)
    /\ dirs' = dirs \cup {DatasetDir(name)}
    /\ rootExists' = TRUE
    /\ UNCHANGED <<files, tmpFiles, tmpDirs, tmpExists, nextGuid, seed, cpc, cidx, wpc, widx,
                   wdata, ndumps, now, appended, seenInfos>>

\* coalesce_parquet_data: os.makedirs(tmp_parquet_storage_path, exist_ok=True)
CoalesceStart ==
    /\ cpc \in {"idle", "done", "failed", "crashed"}
    /\ nextGuid < MaxGuid
    /\ cpc' = "loop"
    /\ cidx' = 0
    /\ tmpExists' = TRUE
    /\ op' = [kind |-> "coalesce", pre |-> FullRead(files), before |-> files,
              retry |-> (cpc = "crashed"),
              many |-> {k \in Range(ALL_EQUEUE_KEYS) : has_many_files(files, k)}]
    /\ res' = None
    /\ UNCHANGED <<files, dirs, rootExists, tmpFiles, tmpDirs, nextGuid, seed, wpc, widx, wdata,
                   ndumps, now, appended, seenInfos>>

FileNotFoundError == [error |-> "FileNotFoundError"]
OSError == [error |-> "OSError"]
ShutilError == [error |-> "shutil.Error"]

\* the datasets the loop over ALL_EQUEUE_KEYS has still to visit and does not skip
\* (os.path.exists(cur_path)), by index
Pending == {i \in DOMAIN ALL_EQUEUE_KEYS : i > cidx /\ DatasetDir(ALL_EQUEUE_KEYS[i]) \in dirs}

\* the loop over ALL_EQUEUE_KEYS: the iterations that `continue`, then one that does not
CoalesceDataset ==
    /\ cpc = "loop"
    /\ Pending # {}
    /\ LET i == CHOOSE j \in Pending : \A k \in Pending : j <= k
           name == ALL_EQUEUE_KEYS[i]
           df == ReadWhole(files, name, None)
           mine == DatasetFiles(files, name)
           mydirs == {d \in dirs : d[1] = name}
       IN  IF ~has_many_files(files, name)
           THEN \* shutil.move(cur_path, os.path.join(tmp_parquet_storage_path, name))
                IF DatasetDir(name) \notin tmpDirs
                THEN \* os.rename onto the free name
                     /\ cidx' = i
                     /\ files' = files \ mine
                     /\ dirs' = dirs \ mydirs
                     /\ tmpFiles' = tmpFiles \cup mine
                     /\ tmpDirs' = tmpDirs \cup mydirs
                     /\ UNCHANGED <<nextGuid, cpc, res>>
                ELSE IF Dir(name, 1) \in tmpDirs
                THEN \* the destination inside the existing directory exists too
                     /\ cpc' = "failed"
                     /\ res' = ShutilError
                     /\ UNCHANGED <<files, dirs, tmpFiles, tmpDirs, nextGuid, cidx>>
                ELSE \* the destination is a directory: the source is moved inside it
                     /\ cidx' = i
                     /\ files' = files \ mine
                     /\ dirs' = dirs \ mydirs
                     /\ tmpFiles' = tmpFiles \cup {[f EXCEPT !.sub = @ + 1] : f \in mine}
                     /\ tmpDirs' = tmpDirs \cup {Dir(name, d[2] + 1) : d \in mydirs}
                     /\ UNCHANGED <<nextGuid, cpc, res>>
           ELSE IF IsError(df)
           THEN /\ cpc' = "failed"
                /\ res' = df
                /\ UNCHANGED <<files, dirs, tmpFiles, tmpDirs, nextGuid, cidx>>
           ELSE /\ cidx' = i
                /\ tmpFiles' = tmpFiles \cup write_to_dataset(df.rows, name, nextGuid)
                /\ tmpDirs' = tmpDirs \cup {DatasetDir(name)}
                /\ nextGuid' = nextGuid + 1
                /\ UNCHANGED <<files, dirs, cpc, res>>
    /\ UNCHANGED <<rootExists, tmpExists, seed, wpc, widx, wdata, ndumps, now, op, appended, seenInfos>>

\* shutil.rmtree(parquet_storage_path)
CoalesceRmtree ==
    /\ cpc = "loop"
    /\ Pending = {}
    /\ IF rootExists
       THEN /\ files' = {}
            /\ dirs' = {}
            /\ rootExists' = FALSE
            /\ cpc' = "rename"
            /\ res' = None
       ELSE /\ cpc' = "failed"
            /\ res' = FileNotFoundError
            /\ UNCHANGED <<files, dirs, rootExists>>
    /\ UNCHANGED <<tmpFiles, tmpDirs, tmpExists, nextGuid, seed, cidx, wpc, widx, wdata, ndumps,
                   now, op, appended, seenInfos>>

\* os.rename(tmp_parquet_storage_path, parquet_storage_path): onto nothing or an empty directory
CoalesceRename ==
    /\ cpc = "rename"
    /\ IF rootExists /\ (dirs # {} \/ files # {})
       THEN /\ cpc' = "failed"
            /\ res' = OSError
            /\ UNCHANGED <<files, dirs, rootExists, tmpFiles, tmpDirs, tmpExists>>
       ELSE /\ files' = tmpFiles
            /\ dirs' = tmpDirs
            /\ rootExists' = TRUE
            /\ tmpFiles' = {}
            /\ tmpDirs' = {}
            /\ tmpExists' = FALSE
            /\ cpc' = "done"
            /\ res' = None
    /\ UNCHANGED <<nextGuid, seed, cidx, wpc, widx, wdata, ndumps, now, op, appended, seenInfos>>

Next ==
    \/ \E sd \in Seeds : StartRun(sd)
    \/ \E data \in Snapshots : DumpToParquet(data)
    \/ CoalesceStart
    \/ CoalesceDataset
    \/ CoalesceRmtree
    \/ CoalesceRename

Spec == Init /\ [][Next]_vars

-----------------------------------------------------------------------------
(* Dumps of raw snapshots that may be malformed *)

\* dump_to_parquet(data) on a raw snapshot of any shape, with nothing else running
DumpRaw(data) ==
    /\ Quiet
    /\ ndumps < MaxDumps
    /\ op' = [kind |-> "dump_raw", data |-> data, before |-> Store, root |-> rootExists]
    /\ res' = DumpOrRaise(Store, data, seed).res
    /\ StoreBecomes(DumpOrRaise(Store, data, seed).store)
    /\ IF ConvertRaises(data) # None
       THEN UNCHANGED <<rootExists, ndumps, now, seenInfos>>
       ELSE /\ rootExists' = TRUE
            /\ ndumps' = ndumps + 1
            /\ now' = LoadTimeOf(data)
            /\ seenInfos' = seenInfos \cup {data[INFO_KEY]}
    /\ UNCHANGED <<tmpFiles, tmpDirs, tmpExists, seed, cpc, cidx, wpc, widx, wdata>>

NextRaw ==
    \/ \E sd \in Seeds : StartRun(sd)
    \/ \E data \in RawSnapshots : DumpRaw(data)

SpecRaw == Init /\ [][NextRaw]_vars

-----------------------------------------------------------------------------
(* run_equeue_parser.py and dump_all_stored_json_to_parquet: the ingestion loops *)

\* what requests.get and json.loads raise in parse_equeue and in the bulk import
RequestException == [error |-> "RequestException"]
JSONDecodeError == [error |-> "JSONDecodeError"]

\* the most cycles of the ingestion loop that are followed
MaxCycles == MaxDumps + 1

\* what the fetch of one cycle may bring: a response that is a snapshot of some shape, a
\* response that is no JSON, no response
Responses == RawSnapshots \cup {JSONDecodeError, RequestException}

\* parse_equeue(url) at the time t, on the response: the parsed snapshot stamped with
\* str(datetime.now()), or the exception raised
parse_equeue(response, t) ==
    IF response \in {JSONDecodeError, RequestException} THEN response
    ELSE [k \in DOMAIN response \cup {"datetime"} |->
            IF k = "datetime" THEN TimeString(LOAD_FORMAT, t) ELSE response[k]]

\* dump_to_parquet(parse_equeue(url)): the exception of the fetch passes through
CycleOutcome(S, fetched, sd) ==
    IF fetched \in {JSONDecodeError, RequestException}
    THEN [store |-> S, res |-> fetched]
    ELSE DumpOrRaise(S, fetched, sd)

\* the loop of run_equeue_parser.py is running and sleeps between two cycles
ParserSleeps == op.kind = "run_equeue_parser" /\ op.pc = "sleep"

\* the store and the result after dump_to_parquet(data) has returned or raised out.res
Dumped(data, out) ==
    /\ res' = out.res
    /\ StoreBecomes(out.store)
    /\ IF out.res = None
       THEN /\ rootExists' = TRUE
            /\ ndumps' = ndumps + 1
            /\ seenInfos' = seenInfos \cup {data[INFO_KEY]}
       ELSE UNCHANGED <<rootExists, ndumps, seenInfos>>
    /\ UNCHANGED <<tmpFiles, tmpDirs, tmpExists, seed, cpc, cidx, wpc, widx, wdata>>

\* the cycle that dumps what was fetched
CycleDumps(fetched, out) ==
    /\ op' = [kind |-> "run_equeue_parser",
              cycle |-> (IF op.kind = "none" THEN 0 ELSE op.cycle) + 1,
              fetched |-> fetched, before |-> files,
              pc |-> IF out.res = None THEN "sleep" ELSE "raised"]
    /\ Dumped(fetched, out)

\* one cycle of the while True loop: fetch, dump, sleep.  An exception of the cycle is
\* caught nowhere: it ends the process.
ParserCycle(response, t) ==
    /\ op.kind = "none" \/ ParserSleeps
    /\ (IF op.kind = "none" THEN 0 ELSE op.cycle) < MaxCycles
    /\ t > now
    /\ now' = t
    /\ CycleDumps(parse_equeue(response, t), CycleOutcome(Store, parse_equeue(response, t), seed))

\* a line of the json storage file: a snapshot of some shape or a line json.loads refuses
ImportLines ==
    {RawSnapshot(T1), RawSnapshot(T2), JSONDecodeError,
     [RawSnapshot(T1) EXCEPT ![CAR_LIVE_QUEUE_KEY][2] = Without(@, "regnum")]}
ImportFiles == {<<a, b>> : a \in ImportLines, b \in ImportLines}

\* dump_all_stored_json_to_parquet(): the lines are read
ImportStart(lines) ==
    /\ op.kind = "none"
    /\ op' = [kind |-> "dump_all_stored_json_to_parquet", lines |-> lines, idx |-> 0,
              before |-> files, pc |-> "loop"]
    /\ res' = None
    /\ UNCHANGED <<files, dirs, rootExists, tmpFiles, tmpDirs, tmpExists, nextGuid, seed, cpc,
                   cidx, wpc, widx, wdata, ndumps, now, appended, seenInfos>>

\* the pass that dumps the line
LineDumps(line, out) ==
    /\ op' = [op EXCEPT !.idx = @ + 1, !.before = files,
                        !.pc = IF out.res # None THEN "raised"
                               ELSE IF op.idx + 1 = Len(op.lines) THEN "done"
                               ELSE "loop"]
    /\ now' = IF out.res = None THEN LoadTimeOf(line) ELSE now
    /\ Dumped(line, out)

\* one pass of its for loop: json.loads of the line and dump_to_parquet.  An exception of
\* the pass is caught nowhere: it ends the import.
ImportLine ==
    /\ op.kind = "dump_all_stored_json_to_parquet"
    /\ op.pc = "loop"
    /\ op.idx < Len(op.lines)
    /\ LineDumps(op.lines[op.idx + 1], CycleOutcome(Store, op.lines[op.idx + 1], seed))

NextIngest ==
    \/ \E response \in Responses, t \in LoadTimes : ParserCycle(response, t)
    \/ \E lines \in ImportFiles : ImportStart(lines)
    \/ ImportLine

SpecIngest == Init /\ [][NextIngest]_vars

-----------------------------------------------------------------------------
(* A compaction that is stopped *)

\* the process running coalesce_parquet_data is killed between two of its steps
CoalesceCrash ==
    /\ cpc \in {"loop", "rename"}
    /\ cpc' = "crashed"
    /\ UNCHANGED <<files, dirs, rootExists, tmpFiles, tmpDirs, tmpExists, nextGuid, seed, cidx,
                   wpc, widx, wdata, ndumps, now, op, res, appended, seenInfos>>

\* the dumps that fill the store before the first compaction
DumpBeforeCompaction(data) == cpc = "idle" /\ DumpToParquet(data)

NextCrash ==
    \/ \E sd \in Seeds : StartRun(sd)
    \/ \E data \in Snapshots : DumpBeforeCompaction(data)
    \/ CoalesceStart
    \/ CoalesceDataset
    \/ CoalesceRmtree
    \/ CoalesceRename
    \/ CoalesceCrash

SpecCrash == Init /\ [][NextCrash]_vars

-----------------------------------------------------------------------------
(* dump_to_parquet step by step, beside a compaction; the writer may be killed *)

ConcSnapshots ==
    {Snapshot(t, Info(<<"a">>, <<"b">>), <<CarEntities[1]>>, <<>>) : t \in {T1, T2}}

\* convert_to_pandas_equeue(data), before anything is written
DumpBegin(data) ==
    /\ wpc = "idle"
    /\ ndumps < MaxDumps
    /\ LoadTimeOf(data) >= now
    /\ ndumps' = ndumps + 1
    /\ now' = LoadTimeOf(data)
    /\ wpc' = "next"
    /\ widx' = 0
    /\ wdata' = [dfs |-> convert_to_pandas_equeue(data, seed), guid |-> 0, pending |-> <<>>]
    /\ op' = [kind |-> "dump", data |-> data, fresh |-> FreshLoadTime(LoadTimeOf(data))]
    /\ res' = None
    /\ seenInfos' = seenInfos \cup {data[INFO_KEY]}
    /\ UNCHANGED <<files, dirs, rootExists, tmpFiles, tmpDirs, tmpExists, nextGuid, seed, cpc,
                   cidx, appended>>

\* the rows dump_info / dump_single_df hands to write_to_dataset for the i-th dataset
RowsToWrite(i) ==
    LET df == wdata.dfs[ALL_EQUEUE_KEYS[i]]
    IN  IF i = 1 THEN (IF is_info_stored(files, df.hash) THEN <<>> ELSE <<df>>)
        ELSE IF df = None THEN <<>> ELSE df.rows

\* a file as it is while pq.write_to_dataset writes it: at its final path, without footer
Partial(f) == [f EXCEPT !.rows = <<>>, !.complete = FALSE]

\* the calls that write nothing, then the start of the next pq.write_to_dataset: its file
\* is created at its final path
DumpOpen ==
    /\ wpc = "next"
    /\ LET infoRead == widx = 0
           madeDirs == IF infoRead THEN {DatasetDir(INFO_KEY)} ELSE {}
           cand == {i \in DOMAIN ALL_EQUEUE_KEYS : i > widx /\ RowsToWrite(i) # <<>>}
       IN  IF infoRead /\ InfoReadRaises(files)
           THEN /\ wpc' = "idle"
                /\ widx' = 0
                /\ wdata' = None
                /\ res' = ArrowInvalid
                /\ dirs' = dirs \cup madeDirs
                /\ rootExists' = TRUE
                /\ UNCHANGED <<files, nextGuid>>
           ELSE IF cand = {}
           THEN /\ wpc' = "idle"
                /\ widx' = 0
                /\ wdata' = None
                /\ res' = None
                /\ dirs' = dirs \cup madeDirs
                /\ rootExists' = (rootExists \/ infoRead)
                /\ UNCHANGED <<files, nextGuid>>
           ELSE LET i == CHOOSE j \in cand : \A k \in cand : j <= k
                    name == ALL_EQUEUE_KEYS[i]
                    rows == RowsToWrite(i)
                IN  /\ wpc' = "close"
                    /\ widx' = i
                    /\ wdata' = [wdata EXCEPT !.guid = nextGuid, !.pending = rows]
                    /\ files' = files \cup {Partial(f) : f \in write_to_dataset(rows, name, nextGuid)}
                    /\ dirs' = dirs \cup madeDirs \cup {DatasetDir(name)}
                    /\ rootExists' = TRUE
                    /\ nextGuid' = nextGuid + 1
                    /\ res' = None
    /\ UNCHANGED <<tmpFiles, tmpDirs, tmpExists, seed, cpc, cidx, ndumps, now, op, appended,
                   seenInfos>>

\* the file f, wherever it is now, is the file the writer has open
IsOpenFile(f) ==
    /\ ~f.complete
    /\ f.guid = wdata.guid
    /\ f.name = ALL_EQUEUE_KEYS[widx]

\* the end of pq.write_to_dataset: the open file gets its rows and its footer, where the
\* compaction left it (in place, moved to the staging directory, or deleted)
DumpClose ==
    /\ wpc = "close"
    /\ LET name == ALL_EQUEUE_KEYS[widx]
           done == write_to_dataset(wdata.pending, name, wdata.guid)
           Closed(f) == LET g == CHOOSE x \in done : x.year = f.year /\ x.month = f.month
                        IN  [f EXCEPT !.rows = g.rows, !.complete = TRUE]
           CloseIn(fs) == {IF IsOpenFile(f) THEN Closed(f) ELSE f : f \in fs}
       IN  /\ files' = CloseIn(files)
           /\ tmpFiles' = CloseIn(tmpFiles)
           /\ appended' = AppendedAfter(appended, done)
    /\ wpc' = "next"
    /\ wdata' = [wdata EXCEPT !.pending = <<>>]
    /\ UNCHANGED <<dirs, rootExists, tmpDirs, tmpExists, nextGuid, seed, cpc, cidx, widx, ndumps,
                   now, op, res, seenInfos>>

\* the process that runs dump_to_parquet is killed
Crash ==
    /\ wpc # "idle"
    /\ wpc' = "idle"
    /\ widx' = 0
    /\ wdata' = None
    /\ op' = [kind |-> "crash", at |-> wpc]
    /\ res' = None
    /\ UNCHANGED <<files, dirs, rootExists, tmpFiles, tmpDirs, tmpExists, nextGuid, seed, cpc,
                   cidx, ndumps, now, appended, seenInfos>>

NextConc ==
    \/ \E data \in ConcSnapshots : DumpBegin(data)
    \/ DumpOpen
    \/ DumpClose
    \/ Crash
    \/ CoalesceStart
    \/ CoalesceDataset
    \/ CoalesceRmtree
    \/ CoalesceRename

SpecConc == Init /\ [][NextConc]_vars

-----------------------------------------------------------------------------
(* Reads and queries of a store that dumps fill *)

\* get_count(queues_names, filters, floor_value, aggregation_method); every read_queue
\* call it makes goes through the os.makedirs of read_from_parquet
GetCount(queues_names, filters, floor_value, aggregation_method) ==
    /\ Quiet
    /\ op' = [kind |-> "get_count", queues_names |-> queues_names, filters |-> filters,
              floor_value |-> floor_value, aggregation_method |-> aggregation_method,
              dirs_before |-> dirs,
              filters_after |-> IF filters = None \/ ~check_queue_names(queues_names) THEN filters
                                ELSE CountReadFilters(filters, Len(queues_names))]
    /\ res' = get_count(files, queues_names, filters, floor_value, aggregation_method)
    /\ LET read == IF check_queue_names(queues_names)
                   THEN DOMAIN CountFrames(files, queues_names, filters, floor_value, aggregation_method)
                   ELSE {}
       IN  /\ dirs' = dirs \cup {DatasetDir(queues_names[n]) : n \in read}
           /\ rootExists' = (rootExists \/ read # {})
    /\ UNCHANGED <<files, tmpFiles, tmpDirs, tmpExists, nextGuid, seed, cpc, cidx, wpc, widx,
                   wdata, ndumps, now, appended, seenInfos>>

NextRead ==
    \/ \E data \in ReadSnapshots : DumpToParquet(data)
    \/ \E name \in ReadNames, filters \in ReadFilters, in_batches \in BOOLEAN,
          columns \in ReadColumns, batch_size \in BatchSizes :
          ReadFromParquet(name, filters, in_batches, columns, batch_size)

SpecRead == Init /\ [][NextRead]_vars

NextQuery ==
    \/ \E data \in ReadSnapshots : DumpToParquet(data)
    \/ \E queues_names \in QueueNameLists, filters \in CountFilters,
          floor_value \in {None, Freq("h")}, aggregation_method \in {"max"} :
          GetCount(queues_names, filters, floor_value, aggregation_method)

SpecQuery == Init /\ [][NextQuery]_vars

\* the directories os.makedirs of read_from_parquet makes for the datasets read
DirsRead(queues_names, read) ==
    /\ dirs' = dirs \cup {DatasetDir(queues_names[n]) : n \in read}
    /\ rootExists' = (rootExists \/ read # {})

\* get_waiting_time(queues_names, relative_time, filters, floor_value, aggregation_method)
GetWaitingTime(queues_names, relative_time, filters, floor_value, aggregation_method) ==
    /\ Quiet
    /\ op' = [kind |-> "get_waiting_time", queues_names |-> queues_names,
              relative_time |-> relative_time, filters |-> filters, floor_value |-> floor_value,
              aggregation_method |-> aggregation_method,
              dirs_before |-> dirs,
              filters_after |-> IF filters = None \/ ~WaitingTimeChecked(queues_names, relative_time)
                                THEN filters
                                ELSE WaitReadFilters(filters, Len(queues_names))]
    /\ res' = get_waiting_time(files, queues_names, relative_time, filters, floor_value,
                               aggregation_method)
    /\ DirsRead(queues_names,
                IF WaitingTimeChecked(queues_names, relative_time)
                THEN DOMAIN WaitFrames(files, queues_names, relative_time, filters, floor_value,
                                       aggregation_method)
                ELSE {})
    /\ UNCHANGED <<files, tmpFiles, tmpDirs, tmpExists, nextGuid, seed, cpc, cidx, wpc, widx,
                   wdata, ndumps, now, appended, seenInfos>>

\* get_count_by_regions(queue_name, filters, floor_value, aggregation_method)
GetCountByRegions(queue_name, filters, floor_value, aggregation_method) ==
    /\ Quiet
    /\ op' = [kind |-> "get_count_by_regions", queue_name |-> queue_name, filters |-> filters,
              floor_value |-> floor_value, aggregation_method |-> aggregation_method]
    /\ res' = get_count_by_regions(files, queue_name, filters, floor_value, aggregation_method)
    /\ DirsRead(<<queue_name>>, {1})
    /\ UNCHANGED <<files, tmpFiles, tmpDirs, tmpExists, nextGuid, seed, cpc, cidx, wpc, widx,
                   wdata, ndumps, now, appended, seenInfos>>

NextRegions ==
    \/ \E data \in RegionSnapshots : DumpToParquet(data)
    \/ \E queue_name \in RegionQueueNames, floor_value \in RegionFloorValues,
          aggregation_method \in RegionMethods :
          GetCountByRegions(queue_name, None, floor_value, aggregation_method)

SpecRegions == Init /\ [][NextRegions]_vars

\* a caller that passes the filters list it gave to the query before on to get_count
GetCountWithSameList ==
    /\ op.kind \in {"get_waiting_time", "get_count"}
    /\ op.filters # None
    /\ op.filters \in WaitFilters
    /\ GetCount(op.queues_names, op.filters_after, None, "max")

\* dumps, compactions and reads of the whole dataset and in batches
NextPartition ==
    \/ \E data \in PartitionSnapshots : DumpToParquet(data)
    \/ CoalesceStart
    \/ CoalesceDataset
    \/ CoalesceRmtree
    \/ CoalesceRename
    \/ \E in_batches \in BOOLEAN : ReadFromParquet(CAR_LIVE_QUEUE_KEY, None, in_batches, None, 2)

SpecPartition == Init /\ [][NextPartition]_vars

\* get_registered_count(queues_names, filters, floor_value)
GetRegisteredCount(queues_names, filters, floor_value) ==
    /\ Quiet
    /\ op' = [kind |-> "get_registered_count", queues_names |-> queues_names,
              filters |-> filters, floor_value |-> floor_value, status |-> 2]
    /\ res' = get_registered_count(files, queues_names, filters, floor_value)
    /\ DirsRead(queues_names,
                IF check_queue_names(queues_names)
                THEN DOMAIN ThroughputFrames(files, queues_names, filters, floor_value, 2,
                                             REGISTRATION_DATE_COLUMN)
                ELSE {})
    /\ UNCHANGED <<files, tmpFiles, tmpDirs, tmpExists, nextGuid, seed, cpc, cidx, wpc, widx,
                   wdata, ndumps, now, appended, seenInfos>>

\* get_called_count(queues_names, filters, floor_value)
GetCalledCount(queues_names, filters, floor_value) ==
    /\ Quiet
    /\ op' = [kind |-> "get_called_count", queues_names |-> queues_names,
              filters |-> filters, floor_value |-> floor_value, status |-> 3]
    /\ res' = get_called_count(files, queues_names, filters, floor_value)
    /\ DirsRead(queues_names,
                IF check_queue_names(queues_names)
                THEN DOMAIN ThroughputFrames(files, queues_names, filters, floor_value, 3,
                                             CHANGED_DATE_COLUMN)
                ELSE {})
    /\ UNCHANGED <<files, tmpFiles, tmpDirs, tmpExists, nextGuid, seed, cpc, cidx, wpc, widx,
                   wdata, ndumps, now, appended, seenInfos>>

\* get_single_vehicle_registrations_count(queue_name, filters): the assertion is its first
\* statement, nothing is read where it fails
GetSingleVehicleRegistrationsCount(queue_name, filters) ==
    /\ Quiet
    /\ op' = [kind |-> "get_single_vehicle_registrations_count", queues_names |-> <<queue_name>>,
              filters |-> filters]
    /\ res' = get_single_vehicle_registrations_count(files, queue_name, filters)
    /\ DirsRead(<<queue_name>>,
                IF TupleIsTrue(check_single_queue_name(queue_name)) THEN {1} ELSE {})
    /\ UNCHANGED <<files, tmpFiles, tmpDirs, tmpExists, nextGuid, seed, cpc, cidx, wpc, widx,
                   wdata, ndumps, now, appended, seenInfos>>

NextThroughput ==
    \/ \E data \in ReadSnapshots : DumpToParquet(data)
    \/ \E queues_names \in ThroughputNameLists, filters \in CountFilters,
          floor_value \in ThroughputFloorValues :
          GetRegisteredCount(queues_names, filters, floor_value)
    \/ \E queues_names \in ThroughputNameLists, filters \in CountFilters :
          GetCalledCount(queues_names, filters, Freq("h"))
    \/ \E queue_name \in RegionQueueNames :
          GetSingleVehicleRegistrationsCount(queue_name, None)

SpecThroughput == Init /\ [][NextThroughput]_vars

\* get_number_of_declined_vehicles(queues_names, filters, floor_value, aggregation_method)
GetNumberOfDeclinedVehicles(queues_names, filters, floor_value, aggregation_method) ==
    /\ Quiet
    /\ op' = [kind |-> "get_number_of_declined_vehicles", queues_names |-> queues_names,
              filters |-> filters, floor_value |-> floor_value,
              aggregation_method |-> aggregation_method]
    /\ res' = get_number_of_declined_vehicles(files, queues_names, filters, floor_value,
                                              aggregation_method)
    /\ DirsRead(queues_names,
                IF check_queue_names(queues_names)
                THEN DOMAIN DeclinedFrames(files, queues_names, filters, floor_value,
                                           aggregation_method)
                ELSE {})
    /\ UNCHANGED <<files, tmpFiles, tmpDirs, tmpExists, nextGuid, seed, cpc, cidx, wpc, widx,
                   wdata, ndumps, now, appended, seenInfos>>

NextDeclined ==
    \/ \E data \in CalledSnapshots : DumpToParquet(data)
    \/ \E queues_names \in WaitNameLists, filters \in WaitFilters,
          floor_value \in {None, Freq("h")}, aggregation_method \in {"sum", "count"} :
          GetNumberOfDeclinedVehicles(queues_names, filters, floor_value, aggregation_method)

SpecDeclined == Init /\ [][NextDeclined]_vars

\* get_called_vehicles_waiting_time(queues_names, filters, aggregation_type, floor_value)
GetCalledVehiclesWaitingTime(queues_names, filters, aggregation_type, floor_value) ==
    /\ Quiet
    /\ op' = [kind |-> "get_called_vehicles_waiting_time", queues_names |-> queues_names,
              filters |-> filters, aggregation_type |-> aggregation_type,
              floor_value |-> floor_value]
    /\ res' = get_called_vehicles_waiting_time(files, queues_names, filters, aggregation_type,
                                               floor_value)
    /\ DirsRead(queues_names,
                IF check_queue_names(queues_names) /\ aggregation_type \in {"max", "min", "mean"}
                THEN DOMAIN CalledFrames(files, queues_names, filters, aggregation_type,
                                         floor_value)
                ELSE {})
    /\ UNCHANGED <<files, tmpFiles, tmpDirs, tmpExists, nextGuid, seed, cpc, cidx, wpc, widx,
                   wdata, ndumps, now, appended, seenInfos>>

NextCalled ==
    \/ \E data \in CalledSnapshots : DumpToParquet(data)
    \/ \E queues_names \in WaitNameLists, filters \in WaitFilters,
          aggregation_type \in {"min", "max", "sum"}, floor_value \in {None, Freq("h")} :
          GetCalledVehiclesWaitingTime(queues_names, filters, aggregation_type, floor_value)

SpecCalled == Init /\ [][NextCalled]_vars

NextShared ==
    \/ \E data \in WaitSnapshots : DumpToParquet(data)
    \/ \E queues_names \in WaitNameLists, filters \in WaitFilters :
          GetWaitingTime(queues_names, "load", filters, None, "max")
    \/ \E queues_names \in WaitNameLists, filters \in WaitFilters :
          GetCount(queues_names, filters, None, "max")
    \/ GetCountWithSameList

SpecShared == Init /\ [][NextShared]_vars

NextWait ==
    \/ \E data \in WaitSnapshots : DumpToParquet(data)
    \/ \E queues_names \in WaitNameLists, relative_time \in RelativeTimes, filters \in WaitFilters,
          floor_value \in {None, Freq("h")}, aggregation_method \in {"max"} :
          GetWaitingTime(queues_names, relative_time, filters, floor_value, aggregation_method)

SpecWait == Init /\ [][NextWait]_vars

-----------------------------------------------------------------------------
(* apply_datetime_aggregation applied to frames *)

InitAgg == InitStore /\ op \in {[kind |-> "frame", df |-> df] : df \in AggFrames}

ApplyDatetimeAggregation(floor_value, aggregation_method, group_columns, value_columns) ==
    /\ op.kind = "frame"
    /\ op' = [kind |-> "agg", df |-> op.df, floor_value |-> floor_value,
              aggregation_method |-> aggregation_method, group_columns |-> group_columns,
              value_columns |-> value_columns]
    /\ res' = apply_datetime_aggregation(op.df, LOAD_DATE_COLUMN, floor_value, aggregation_method,
                                         group_columns, value_columns)
    /\ UNCHANGED <<files, dirs, rootExists, tmpFiles, tmpDirs, tmpExists, nextGuid, seed, cpc,
                   cidx, wpc, widx, wdata, ndumps, now, appended, seenInfos>>

NextAgg ==
    \E floor_value \in FloorValues, aggregation_method \in AggregationMethods,
       group_columns \in GroupColumns, value_columns \in ValueColumns :
       ApplyDatetimeAggregation(floor_value, aggregation_method, group_columns, value_columns)

SpecAgg == InitAgg /\ [][NextAgg]_vars

-----------------------------------------------------------------------------
(* Properties of the store *)

\* the descriptive fields of a stored info row, as the Checkpoint Info that gave them
DescriptiveFields(row) ==
    [id |-> row.id, nameEn |-> row.name, address |-> row.address, phone |-> row.phone,
     isBts |-> row.is_brest, name |-> row.name_ru]

\* the rows of the info dataset that hold the content of equeue_info
InfoRowsOf(fs, equeue_info) ==
    SelectSeq(FullRead(fs)[INFO_KEY], LAMBDA r : DescriptiveFields(r) = equeue_info)

QueueKeys == Range(ALL_EQUEUE_KEYS) \ {INFO_KEY}

LoadTimeFilter(t) == PyList(<<<<LOAD_DATE_COLUMN, "=", t>>>>)

\* C1: after any sequence of N >= 1 dumps whose Checkpoint Info has identical descriptive
\* fields, made by one run or by separate runs of the ingestion process, the info dataset
\* holds exactly one row for that content.
C1_IdempotentDedup ==
    (ndumps >= 1 /\ Cardinality(seenInfos) = 1 /\ Quiet /\ tmpFiles = {})
        => \A c \in seenInfos : Len(InfoRowsOf(files, c)) = 1

\* the queue datasets read back with load_dt = t hold, per category, the normalizer's rows
QueuesReadBack(fs, data, sd) ==
    LET expected == convert_to_pandas_equeue(data, sd)
        tested == read_all_from_parquet(fs, LoadTimeFilter(LoadTimeOf(data)), FALSE)
    IN  \A k \in QueueKeys :
            IF expected[k] = None
            THEN tested[k] = None \/ (~IsError(tested[k]) /\ tested[k].rows = <<>>)
            ELSE /\ tested[k] # None
                 /\ ~IsError(tested[k])
                 /\ Range(tested[k].columns) = Range(expected[k].columns)
                 /\ SameBag(tested[k].rows, expected[k].rows)

\* the dump that just returned stored a snapshot whose load time no stored row had
FreshDumpDone == op.kind = "dump" /\ op.fresh /\ res = None /\ Quiet

\* C2: round trip.  After dump_to_parquet(S) of a snapshot S whose load time no earlier
\* append had, read_all_from_parquet with the filter load_dt = load time of S returns per
\* category exactly the normalizer's rows for S (an empty category as None or no rows), and
\* the info dataset contains the info content of S.
C2_RoundTrip ==
    FreshDumpDone
        => /\ QueuesReadBack(files, op.data, seed)
           /\ Len(InfoRowsOf(files, op.data[INFO_KEY])) >= 1

\* the queue half of C2 alone
C2_QueuesRoundTrip == FreshDumpDone => QueuesReadBack(files, op.data, seed)

C2_Witness ==
    /\ FreshDumpDone
    /\ ndumps = 2
    /\ op.data[CAR_LIVE_QUEUE_KEY] = <<>>
    /\ DatasetFiles(files, CAR_LIVE_QUEUE_KEY) # {}

\* every (year, month) partition of every dataset holds exactly one file
OneFilePerPartition(fs) ==
    \A k \in Range(ALL_EQUEUE_KEYS) : \A part \in Partitions(fs, k) :
        Cardinality(FilesIn(fs, k, part)) = 1

\* C3: a compaction run with nothing else running preserves content and reduces the file
\* count: after it, the full read of every dataset holds exactly the rows of the full read
\* before it, and every (year, month) partition of every dataset holds exactly one file.
C3_CompactionPreserves ==
    (op.kind = "coalesce" /\ cpc = "done")
        => /\ \A k \in Range(ALL_EQUEUE_KEYS) : SameBag(FullRead(files)[k], op.pre[k])
           /\ OneFilePerPartition(files)

C3_Witness ==
    /\ op.kind = "coalesce"
    /\ cpc = "done"
    /\ CAR_LIVE_QUEUE_KEY \in op.many
    /\ Len(FullRead(files)[CAR_LIVE_QUEUE_KEY]) = 2 * Len(CarEntities)

\* C6: an append never rewrites or removes a file.  A dump leaves every file that was there
\* in place and unchanged; for a category with no entries it changes nothing of the
\* dataset; for a category with entries it adds files in exactly the (year, month)
\* partitions of the rows.
C6_AppendOnlyAddsStep ==
    (op'.kind = "dump" /\ ndumps' = ndumps + 1 /\ res' = None)
        => LET dfs == convert_to_pandas_equeue(op'.data, seed)
           IN  /\ files \subseteq files'
               /\ \A k \in QueueKeys :
                     LET new == DatasetFiles(files', k) \ DatasetFiles(files, k)
                     IN  IF dfs[k] = None
                         THEN new = {} /\ (DatasetDir(k) \in dirs' <=> DatasetDir(k) \in dirs)
                         ELSE /\ new # {}
                              /\ {<<f.year, f.month>> : f \in new}
                                     = {<<r.year, r.month>> : r \in Range(dfs[k].rows)}
                              /\ \A f \in new : f.sub = 0

\* C6 over every step of the ingestion: no dump rewrites or removes a file.
C6_AppendOnlyAdds == [][C6_AppendOnlyAddsStep]_vars

C6_Witness ==
    /\ op.kind = "dump"
    /\ res = None
    /\ op.data[CAR_LIVE_QUEUE_KEY] # <<>>
    /\ \E part \in Partitions(files, CAR_LIVE_QUEUE_KEY) :
           Cardinality(FilesIn(files, CAR_LIVE_QUEUE_KEY, part)) = 2

-----------------------------------------------------------------------------
(* Properties of the store under concurrency and crashes *)

AllComplete == \A f \in files \cup tmpFiles : f.complete

\* C4: an append that interleaves with a compaction is detected and the compaction is
\* retried; in no interleaving is a stored or newly appended row lost or stored twice:
\* when the compaction has ended and the writer has returned, every dataset reads back
\* exactly the rows that were appended to it.
C4_NoRowLostOrDuplicated ==
    (cpc = "done" /\ wpc = "idle" /\ AllComplete)
        => \A k \in Range(ALL_EQUEUE_KEYS) : SameBag(FullRead(files)[k], appended[k])

\* C5: file publication is atomic: after a writer was killed, the datasets hold either the
\* complete new file or no trace of it, so no partially written file is visible.
C5_AtomicPublication ==
    (wpc = "idle") => \A f \in files : f.complete

-----------------------------------------------------------------------------
(* Properties of reads, queries and aggregation *)

\* C7: a read of a dataset that has no file (its directory may not exist) yields the
\* absent result None and raises nothing, in whole mode and in batch mode; and
\* read_parquet_info_data of an info dataset without files is None.
C7_EmptyDatasetRead ==
    /\ (op.kind = "read" /\ DatasetFiles(files, op.name) = {}) => res = <<None>>
    /\ DatasetFiles(files, INFO_KEY) = {} => read_parquet_info_data(files, None) = None

C7_Witness ==
    /\ op.kind = "read"
    /\ op.in_batches
    /\ op.filters # None
    /\ DatasetFiles(files, op.name) = {}
    /\ files # {}
    /\ res = <<None>>

\* the rows of the frames a read yielded, over the columns cols
YieldedRows(frames, cols) ==
    Concat([k \in DOMAIN frames |->
               IF frames[k] = None THEN <<>>
               ELSE [i \in DOMAIN frames[k].rows |-> Project(frames[k].rows[i], cols)]])

\* C8: a read in batch mode returns the data of the read in whole mode: neither raises
\* unless the other does, the batches together hold exactly the rows of the whole result,
\* and every row returned satisfies the filters.
C8_BatchEqualsWhole ==
    (op.kind = "read" /\ op.in_batches)
        => LET whole == read_from_parquet(files, op.name, op.filters, FALSE, op.columns, op.batch_size)
               cols == IF op.columns = None THEN FileColumns(op.name) ELSE op.columns.list
           IN  IF IsError(whole[1]) THEN res = whole
               ELSE /\ \A k \in DOMAIN res : ~IsError(res[k])
                    /\ SameBag(YieldedRows(res, cols), YieldedRows(whole, cols))

\* the queue names the catalog does not allow a query to take
InvalidQueueNames(queues_names) ==
    \/ Len(queues_names) = 0
    \/ \E i \in DOMAIN queues_names, j \in DOMAIN queues_names : i # j /\ queues_names[i] = queues_names[j]
    \/ \E i \in DOMAIN queues_names : queues_names[i] \notin QueueKeys

\* C9: a query given an empty list of queue names, a duplicate, a name outside the nine
\* categories or 'info' fails with the assertion error of the validation, having read
\* nothing.
C9_InvalidQueueNameRejected ==
    (op.kind = "get_count" /\ InvalidQueueNames(op.queues_names))
        => /\ res = AssertionError
           /\ \A i \in DOMAIN op.queues_names :
                  op.queues_names[i] \notin QueueKeys => DatasetDir(op.queues_names[i]) \notin dirs

\* C10: apply_datetime_aggregation with floor_value = None returns its input frame
\* unchanged, for every frame, reducer, group columns and per-column reducers.
C10_AggregationIdentity ==
    (op.kind = "agg" /\ op.floor_value = None) => res = op.df

C10_Witness ==
    /\ op.kind = "agg"
    /\ op.floor_value = None
    /\ op.aggregation_method = "max"
    /\ op.group_columns # None
    /\ op.df # None
    /\ Len(op.df.rows) = 2
    /\ op.df.rows[1].load_dt > op.df.rows[2].load_dt
    /\ res = op.df

-----------------------------------------------------------------------------
(* Properties of the aggregation *)

\* the row sequences that hold the rows of rows in another order
Shuffles(rows) ==
    {[i \in DOMAIN rows |-> rows[p[i]]] :
        p \in {q \in [DOMAIN rows -> DOMAIN rows] : \A i, j \in DOMAIN rows : q[i] = q[j] => i = j}}

\* the call of op made on the frame df instead
SameCallOn(df) ==
    apply_datetime_aggregation(df, LOAD_DATE_COLUMN, op.floor_value, op.aggregation_method,
                               op.group_columns, op.value_columns)

\* C11: for a fixed granularity, numeric reducer, group columns and per-column reducers,
\* apply_datetime_aggregation gives the same output, in every column, for every order of
\* the same input rows, rows with equal timestamps included.
C11_OrderIndependence ==
    (op.kind = "agg" /\ op.df # None /\ op.floor_value # None /\ op.aggregation_method # "drop")
        => \A rows \in Shuffles(op.df.rows) : SameCallOn(DataFrame(op.df.columns, rows)) = res

\* the numeric columns alone: the reduced numbers do not depend on the order of the rows
C11_NumericOrderIndependence ==
    (op.kind = "agg" /\ op.df # None /\ op.floor_value # None /\ op.aggregation_method # "drop"
        /\ ~IsError(res))
        => \A rows \in Shuffles(op.df.rows) :
              LET other == SameCallOn(DataFrame(op.df.columns, rows))
              IN  /\ Len(other.rows) = Len(res.rows)
                  /\ \A i \in DOMAIN res.rows :
                        /\ other.rows[i].load_dt = res.rows[i].load_dt
                        /\ other.rows[i].queue_pos = res.rows[i].queue_pos

-----------------------------------------------------------------------------
(* Properties of the queries *)

\* the queue names are ones the validation is meant to accept
ValidQueueNames(queues_names) == ~InvalidQueueNames(queues_names)

\* the stored rows of a category with load time t that hold a position and pass the filters
InQueueRows(fs, name, t, filters) ==
    SelectSeq(FullRead(fs)[name],
              LAMBDA r : r.load_dt = t /\ r.queue_pos # Null /\ MatchesAll(r, filters))

\* the rows of a result frame for the time t and the category name
ResultRows(df, t, name) ==
    SelectSeq(df.rows, LAMBDA r : r.relative_time = t /\ r.queue_name = name)

\* C12: queue length.  get_count without granularity returns, for every requested category
\* and every load time at which the store holds an in-queue row (that passes the filters),
\* exactly one row, whose vehicle_count is the greatest position among those rows; a time
\* at which the category has only rows without a position gives no row.
C12_QueueLength ==
    (op.kind = "get_count" /\ op.floor_value = None /\ ValidQueueNames(op.queues_names))
        => /\ ~IsError(res)
           /\ \A i \in DOMAIN op.queues_names : \A t \in LoadTimes :
                 LET name    == op.queues_names[i]
                     inqueue == InQueueRows(files, name, t, op.filters)
                     rows    == ResultRows(res, t, name)
                 IN  IF inqueue = <<>> THEN rows = <<>>
                     ELSE /\ Len(rows) = 1
                          /\ \E k \in DOMAIN inqueue : inqueue[k].queue_pos = rows[1].vehicle_count
                          /\ \A k \in DOMAIN inqueue : inqueue[k].queue_pos <= rows[1].vehicle_count

\* a query of two categories on a store where the car queue holds positions 1 and 2 and
\* a row without a position at one time, and only a row without a position at another
C12_Witness ==
    /\ op.kind = "get_count"
    /\ op.floor_value = None
    /\ op.queues_names = <<BUS_LIVE_QUEUE_KEY, CAR_LIVE_QUEUE_KEY>>
    /\ op.filters = None
    /\ ~IsError(res)
    /\ \E r \in Range(res.rows) :
          r.queue_name = CAR_LIVE_QUEUE_KEY /\ r.relative_time = T1 /\ r.vehicle_count = 2
    /\ \E r \in Range(FullRead(files)[CAR_LIVE_QUEUE_KEY]) : r.load_dt = T1 /\ r.queue_pos = Null
    /\ \E r \in Range(FullRead(files)[CAR_LIVE_QUEUE_KEY]) : r.load_dt = T3 /\ r.queue_pos = Null
    /\ ResultRows(res, T3, CAR_LIVE_QUEUE_KEY) = <<>>

\* the stored rows of a category that hold position 1 and pass the filters
HeadRows(fs, name, filters) ==
    SelectSeq(FullRead(fs)[name], LAMBDA r : r.queue_pos = 1 /\ MatchesAll(r, filters))

\* the row of the head waiting time for the stored row r: h hundredths of an hour are the
\* hours between registration and observation rounded to 2 decimals
IsWaitRowOf(w, r, name, relative_time) ==
    /\ w.queue_name = name
    /\ w.first_vehicle_number = r.car_number
    /\ w.relative_time = (IF relative_time = "load" THEN r.load_dt ELSE r.reg_date)
    /\ 60 * w.hours_waited - 30 <= 100 * (r.load_dt - r.reg_date)
    /\ 100 * (r.load_dt - r.reg_date) <= 60 * w.hours_waited + 30

\* C13: head waiting time.  Without granularity get_waiting_time returns one row per
\* stored row with position 1 of a requested category and no other row; the row holds the
\* hours between registration and observation rounded to 2 decimals, the registration
\* time (mode 'reg') or the observation time (mode 'load') as its time, and the category
\* as queue_name.
C13_HeadWaitingTime ==
    (op.kind = "get_waiting_time" /\ op.floor_value = None /\ ValidQueueNames(op.queues_names)
        /\ op.relative_time \in {"reg", "load"})
        => /\ ~IsError(res)
           /\ \A w \in Range(res.rows) : w.queue_name \in Range(op.queues_names)
           /\ \A i \in DOMAIN op.queues_names :
                 LET name  == op.queues_names[i]
                     heads == HeadRows(files, name, op.filters)
                     rows  == SelectSeq(res.rows, LAMBDA w : w.queue_name = name)
                 IN  /\ Len(rows) = Len(heads)
                     /\ \E p \in Shuffles(rows) :
                           \A k \in DOMAIN heads : IsWaitRowOf(p[k], heads[k], name, op.relative_time)

\* two snapshots 10 minutes apart with the same head vehicle, registered one hour before
\* the first: two rows, 1.00 and 1.17 hours
C13_Witness ==
    /\ op.kind = "get_waiting_time"
    /\ op.floor_value = None
    /\ op.relative_time = "load"
    /\ op.queues_names = <<CAR_LIVE_QUEUE_KEY>>
    /\ ~IsError(res)
    /\ Len(res.rows) = 2
    /\ res.rows[1].relative_time = T1 /\ res.rows[1].hours_waited = 100
    /\ res.rows[2].relative_time = T2 /\ res.rows[2].hours_waited = 117
    /\ res.rows[1].queue_name = CAR_LIVE_QUEUE_KEY /\ res.rows[2].queue_name = CAR_LIVE_QUEUE_KEY
    /\ \E r \in Range(FullRead(files)[CAR_LIVE_QUEUE_KEY]) : r.queue_pos # 1

\* the region a plate is to be counted under: the table's entry for the last digit of a
\* plate of the format, 'other' for every other plate
RegionOfPlate(cn) ==
    IF BELARUS_CAR_NUMBER_FORMAT(cn) /\ cn[7] \in DOMAIN BELARUS_REGIONS_MAP
    THEN BELARUS_REGIONS_MAP[cn[7]]
    ELSE "other"

RegionNames == {BELARUS_REGIONS_MAP[d] : d \in DOMAIN BELARUS_REGIONS_MAP} \cup {"other"}

\* C14: regional mapping.  Without granularity get_count_by_regions counts every stored
\* in-queue row of the category under exactly one region: for every load time and region,
\* the counts of the result rows of that time and region add up to the number of in-queue
\* rows of that time whose plate maps to the region, a plate that is not of the format
\* mapping to 'other'.
C14_RegionalMapping ==
    (op.kind = "get_count_by_regions" /\ op.floor_value = None /\ op.queue_name \in QueueKeys)
        => /\ ~IsError(res)
           /\ \A t \in LoadTimes : \A region \in RegionNames :
                 LET counted == SelectSeq(res.rows, LAMBDA r : r.relative_time = t /\ r.region = region)
                     stored  == SelectSeq(InQueueRows(files, op.queue_name, t, None),
                                          LAMBDA r : RegionOfPlate(r.car_number) = region)
                 IN  SumSeq([i \in DOMAIN counted |-> counted[i].vehicle_count]) = Len(stored)

\* the plates of the format alone are counted under the region of their last digit
C14_FormatPlatesCounted ==
    (op.kind = "get_count_by_regions" /\ op.floor_value = None /\ op.queue_name \in QueueKeys)
        => /\ ~IsError(res)
           /\ \A t \in LoadTimes : \A region \in RegionNames :
                 LET counted == SelectSeq(res.rows, LAMBDA r : r.relative_time = t /\ r.region = region)
                     stored  == SelectSeq(InQueueRows(files, op.queue_name, t, None),
                                          LAMBDA r : /\ BELARUS_CAR_NUMBER_FORMAT(r.car_number)
                                                     /\ RegionOfPlate(r.car_number) = region)
                 IN  SumSeq([i \in DOMAIN counted |-> counted[i].vehicle_count]) = Len(stored)

-----------------------------------------------------------------------------
(* Properties of the compaction *)

\* C15: the compaction is idempotent.  A run started on a store in which every partition
\* of every dataset holds one file ends with the very files it started with: the content
\* and the one-file-per-partition layout of every dataset are unchanged.
C15_CompactionIdempotent ==
    (op.kind = "coalesce" /\ cpc = "done" /\ OneFilePerPartition(op.before))
        => /\ files = op.before
           /\ OneFilePerPartition(files)
           /\ \A k \in Range(ALL_EQUEUE_KEYS) : SameBag(FullRead(files)[k], op.pre[k])

\* a run that ended on a store an earlier run had compacted: a file holds the rows of two dumps
C15_Witness ==
    /\ op.kind = "coalesce"
    /\ cpc = "done"
    /\ OneFilePerPartition(op.before)
    /\ \E f \in files : \E i, j \in DOMAIN f.rows : f.rows[i].load_dt # f.rows[j].load_dt

\* C16: a compaction run that is stopped before its end leaves the files at the storage
\* path as they were, and a run made after it completes with every dataset reading back
\* exactly the rows that were stored, none lost and none twice.
C16_StoppedCompactionSafe ==
    /\ cpc = "crashed" => files = op.before
    /\ (op.kind = "coalesce" /\ op.retry /\ \E k \in DOMAIN appended : appended[k] # <<>>)
          => cpc # "failed"
    /\ (op.kind = "coalesce" /\ op.retry /\ cpc = "done")
          => \A k \in Range(ALL_EQUEUE_KEYS) : SameBag(FullRead(files)[k], appended[k])

\* a stopped run leaves the storage path as it was while it has moved or deleted nothing
C16_UntouchedBeforeFirstMove ==
    (cpc = "crashed" /\ cidx = 0 /\ rootExists) => files = op.before

-----------------------------------------------------------------------------
(* Properties of the normalizer *)

GivenFilters(filters) ==
    IF filters = None THEN None
    ELSE PyList(SelectSeq(filters.list, LAMBDA f : f[1] # QUEUE_POS_COLUMN))

\* C18: a query is pure and read-only.  get_count and get_waiting_time, called with valid
\* queue names, create no directory and change no file, leave the filters list they were
\* given with the elements it had, and, on the same store, return what they return for a
\* list no query has seen before.
C18_QueriesReadOnly ==
    (op.kind \in {"get_count", "get_waiting_time"} /\ ValidQueueNames(op.queues_names)
        /\ ~IsError(res))
        => /\ dirs = op.dirs_before
           /\ op.filters_after = op.filters
           /\ op.kind = "get_count"
                 => res = get_count(files, op.queues_names, GivenFilters(op.filters),
                                    op.floor_value, op.aggregation_method)

\* on a store that holds the directories of the datasets read, a query creates nothing
C18_NoDirectoryOnStoredDatasets ==
    (op.kind \in {"get_count", "get_waiting_time"} /\ ValidQueueNames(op.queues_names)
        /\ \A i \in DOMAIN op.queues_names : DatasetDir(op.queues_names[i]) \in op.dirs_before)
        => dirs = op.dirs_before


-----------------------------------------------------------------------------
(* Properties of the queries on a dataset with nothing to read *)

\* the dataset of the category holds no file, or no stored row that passes the predicate
NothingToRead(fs, name, filters) ==
    \A f \in DatasetFiles(fs, name) : \A i \in DOMAIN f.rows : ~MatchesAll(f.rows[i], filters)

\* the predicate a query of the kind reads with
PredicateOf(kind, filters, status) ==
    IF kind = "get_single_vehicle_registrations_count" THEN filters
    ELSE AndExpression(filters, <<STATUS_COLUMN, "==", status>>)

FixedColumns(kind) ==
    IF kind = "get_single_vehicle_registrations_count" THEN REGISTRATIONS_COLUMNS
    ELSE COUNT_COLUMNS

ThroughputKinds == {"get_registered_count", "get_called_count"}

\* C19: a query called with valid categories, where the dataset of a requested category
\* has no file or no row that matches the query's predicate, raises no error and returns a
\* table with the fixed columns of its kind and no row for that category (here for the
\* registered throughput, the called throughput and the repeat-visit histogram).
C19_EmptyDatasetQuery ==
    \A n \in 1..2 :
        (/\ op.kind \in ThroughputKinds \cup {"get_single_vehicle_registrations_count"}
         /\ ValidQueueNames(op.queues_names)
         /\ n \in DOMAIN op.queues_names
         /\ NothingToRead(files, op.queues_names[n],
                          PredicateOf(op.kind, op.filters,
                                      IF op.kind \in ThroughputKinds THEN op.status ELSE 0)))
            => /\ ~IsError(res)
               /\ res.columns = FixedColumns(op.kind)
               /\ op.kind \in ThroughputKinds
                     => \A i \in DOMAIN res.rows : res.rows[i].queue_name # op.queues_names[n]
               /\ op.kind \notin ThroughputKinds => res.rows = <<>>

\* where every requested dataset holds a file, the throughput queries give the fixed
\* columns and no row for a category without a matching row
C19_NoMatchingRow ==
    \A n \in 1..2 :
        (/\ op.kind \in ThroughputKinds
         /\ ValidQueueNames(op.queues_names)
         /\ \A m \in DOMAIN op.queues_names : DatasetFiles(files, op.queues_names[m]) # {}
         /\ n \in DOMAIN op.queues_names
         /\ NothingToRead(files, op.queues_names[n],
                          PredicateOf(op.kind, op.filters, op.status)))
            => /\ ~IsError(res)
               /\ res.columns = FixedColumns(op.kind)
               /\ \A i \in DOMAIN res.rows : res.rows[i].queue_name # op.queues_names[n]


-----------------------------------------------------------------------------
(* Properties of the reducer 'drop' *)

\* the (bucket, group) of a row: its time floored to g, and its values in the group columns
BucketOf(row, g, group_columns) ==
    <<dt_floor(row.load_dt, g)>>
        \o KeyOf(row, IF group_columns = None THEN <<>> ELSE group_columns.list)

\* out holds, for each (bucket, group) of inp, one row: a row of inp that no row of its
\* (bucket, group) precedes in time, with the bucket boundary as its time
Decimated(inp, out, g, group_columns) ==
    /\ \A i \in DOMAIN inp :
          Cardinality({j \in DOMAIN out : BucketOf(out[j], g, group_columns)
                                              = BucketOf(inp[i], g, group_columns)
                                          /\ out[j].load_dt = dt_floor(inp[i].load_dt, g)}) = 1
    /\ \A j \in DOMAIN out :
          \E i \in DOMAIN inp :
              /\ out[j] = [inp[i] EXCEPT !.load_dt = dt_floor(@, g)]
              /\ \A m \in DOMAIN inp :
                    BucketOf(inp[m], g, group_columns) = BucketOf(inp[i], g, group_columns)
                        => inp[i].load_dt <= inp[m].load_dt

DropCall == op.kind = "agg" /\ op.df # None /\ op.floor_value # None /\ op.aggregation_method = "drop"

\* C20: with the reducer 'drop' and a granularity (5 minutes, hour, day or month),
\* apply_datetime_aggregation returns one row per (bucket, group columns) of its input: the
\* input row with the earliest time of that bucket and group, its time replaced by the
\* bucket boundary and its other columns as they were, whatever value_columns holds.
C20_DropKeepsEarliest ==
    DropCall
        => /\ ~IsError(res)
           /\ res.columns = op.df.columns
           /\ Decimated(op.df.rows, res.rows, op.floor_value, op.group_columns)

\* the same for the granularities that are fixed frequencies
C20_DropOnFixedFrequency ==
    (DropCall /\ op.floor_value.freq # "M")
        => /\ ~IsError(res)
           /\ res.columns = op.df.columns
           /\ Decimated(op.df.rows, res.rows, op.floor_value, op.group_columns)


-----------------------------------------------------------------------------
(* Properties of the numeric reducers *)

NumericReducers == {"mean", "max", "min"}

\* the reducer the call of op names for the column c: its entry in value_columns where it
\* has one, the default reducer otherwise
ReducerFor(c) ==
    IF op.value_columns # None /\ \E i \in DOMAIN op.value_columns.list : op.value_columns.list[i][1] = c
    THEN op.value_columns.list[CHOOSE i \in DOMAIN op.value_columns.list :
                                   op.value_columns.list[i][1] = c][2]
    ELSE op.aggregation_method

\* cell is the values vals reduced by method
IsReduced(method, vals, cell) ==
    CASE method = "max"  -> cell \in Range(vals) /\ \A w \in Range(vals) : w <= cell
      [] method = "min"  -> cell \in Range(vals) /\ \A w \in Range(vals) : cell <= w
      [] method = "mean" -> cell.num * Len(vals) = SumSeq(vals) * cell.den

\* the row out is the (bucket, group) of the input row first, reduced: the bucket boundary
\* as its time, the group columns, every numeric column reduced over the rows of the group
\* and every other column with the value of a row of the group
IsGroupRow(inp, first, out, columns, g, group_columns) ==
    LET members == SelectSeq(inp, LAMBDA r : BucketOf(r, g, group_columns)
                                                = BucketOf(first, g, group_columns))
        grouping == IF group_columns = None THEN {} ELSE Range(group_columns.list)
    IN  /\ out.load_dt = dt_floor(first.load_dt, g)
        /\ \A c \in Range(columns) \ {LOAD_DATE_COLUMN} :
              /\ c \in DOMAIN out
              /\ c \in grouping => out[c] = first[c]
              /\ (c \notin grouping /\ c \in NumericColumns)
                    => IsReduced(ReducerFor(c), [i \in DOMAIN members |-> members[i][c]], out[c])
              /\ (c \notin grouping /\ c \notin NumericColumns)
                    => \E i \in DOMAIN members : out[c] = members[i][c]

\* out holds exactly one row for each (bucket, group) of inp, the reduced row of it
Aggregated(inp, out, columns, g, group_columns) ==
    /\ \A i \in DOMAIN inp :
          \E j \in DOMAIN out :
              /\ IsGroupRow(inp, inp[i], out[j], columns, g, group_columns)
              /\ \A k \in DOMAIN out :
                    (out[k].load_dt = out[j].load_dt
                        /\ \A c \in (IF group_columns = None THEN {} ELSE Range(group_columns.list)) :
                              out[k][c] = out[j][c])
                        => k = j
    /\ \A j \in DOMAIN out : \E i \in DOMAIN inp : out[j].load_dt = dt_floor(inp[i].load_dt, g)

NumericCall ==
    op.kind = "agg" /\ op.df # None /\ op.floor_value # None /\ op.aggregation_method \in NumericReducers

\* C21: with a numeric reducer and a granularity (5 minutes, hour, day or month),
\* apply_datetime_aggregation returns one row per (bucket, group columns) of its input, its
\* time the bucket boundary, and every column of the input: a numeric column reduced by
\* its entry in value_columns, or by the default reducer where value_columns has no entry
\* for it, a non-numeric column with a value of the group.
C21_NumericReduction ==
    NumericCall
        => /\ ~IsError(res)
           /\ Aggregated(op.df.rows, res.rows, op.df.columns, op.floor_value, op.group_columns)

\* the same for the fixed frequencies, where value_columns is not given or names every
\* numeric column
C21_ReductionOfNamedColumns ==
    (/\ NumericCall
     /\ op.floor_value.freq # "M"
     /\ op.value_columns # None
           => \A c \in {QUEUE_POS_COLUMN, STATUS_COLUMN} :
                 \E i \in DOMAIN op.value_columns.list : op.value_columns.list[i][1] = c)
        => /\ ~IsError(res)
           /\ Aggregated(op.df.rows, res.rows, op.df.columns, op.floor_value, op.group_columns)


-----------------------------------------------------------------------------
(* Properties of the regional breakdown *)

\* the bucket of the load time t
BucketOfTime(t, floor_value) == IF floor_value = None THEN t ELSE dt_floor(t, floor_value)

\* the plates of the format seen in the queue of the category in the bucket b that map to
\* the region
VehiclesOf(fs, name, b, floor_value, region) ==
    {r.car_number : r \in {q \in Range(FullRead(fs)[name]) :
                               /\ q.queue_pos # Null
                               /\ BucketOfTime(q.load_dt, floor_value) = b
                               /\ BELARUS_CAR_NUMBER_FORMAT(q.car_number)
                               /\ RegionOfPlate(q.car_number) = region}}

\* the dtype of the column vehicle_count of a result with rows: aggregate(how) gives
\* numbers on the str column car_number for 'count' alone
CountsAreNumbers == op.floor_value = None \/ op.aggregation_method = "count" \/ res.rows = <<>>

\* the counts of the result are the numbers of distinct vehicles
RegionCountsDistinct ==
    \A t \in LoadTimes \cup {T2} : \A region \in RegionNames :
        LET b == BucketOfTime(t, op.floor_value)
            counted  == SelectSeq(res.rows, LAMBDA r : r.relative_time = b /\ r.region = region)
            vehicles == VehiclesOf(files, op.queue_name, b, op.floor_value, region)
        IN  SumSeq([i \in DOMAIN counted |-> counted[i].vehicle_count]) = Cardinality(vehicles)

\* C22: the regional breakdown counts distinct vehicles for each (time bucket, region),
\* for every granularity (none, hour, month) and reducer: the result is no error, its
\* vehicle_count is a number, and for a bucket and region it is the number of distinct
\* plates of the format seen in the queue in that bucket that map to the region.
C22_DistinctVehiclesPerRegion ==
    (op.kind = "get_count_by_regions" /\ op.queue_name \in QueueKeys)
        => /\ ~IsError(res)
           /\ CountsAreNumbers
           /\ RegionCountsDistinct

\* without granularity, on a store that holds no row twice, the counts are those numbers
C22_NoGranularity ==
    (/\ op.kind = "get_count_by_regions" /\ op.queue_name \in QueueKeys
     /\ op.floor_value = None
     /\ \A i, j \in DOMAIN FullRead(files)[op.queue_name] :
           FullRead(files)[op.queue_name][i] = FullRead(files)[op.queue_name][j] => i = j)
        => /\ ~IsError(res)
           /\ CountsAreNumbers
           /\ RegionCountsDistinct


-----------------------------------------------------------------------------
(* Properties of the declined count *)

\* the (load time, vehicle) pairs of the stored rows of the category with canceled status
\* that pass the filters and whose load time lies in the bucket b
CanceledPairs(fs, name, b, floor_value, filters) ==
    {<<r.load_dt, r.car_number>> :
        r \in {q \in Range(FullRead(fs)[name]) :
                  /\ q.status = 9
                  /\ MatchesAll(q, filters)
                  /\ BucketOfTime(q.load_dt, floor_value) = b}}

\* the result holds, for each category and bucket with a canceled row, one row, with the
\* number of the canceled pairs of that bucket, and no row for any other bucket
DeclinedCounted ==
    \A n \in DOMAIN op.queues_names : \A t \in LoadTimes \cup {T2} :
        LET b      == BucketOfTime(t, op.floor_value)
            pairs  == CanceledPairs(files, op.queues_names[n], b, op.floor_value, op.filters)
            counted == SelectSeq(res.rows, LAMBDA r : r.relative_time = b
                                                      /\ r.queue_name = op.queues_names[n])
        IN  IF pairs = {} THEN counted = <<>>
            ELSE Len(counted) = 1 /\ counted[1].vehicle_count = Cardinality(pairs)

\* C23: the declined count.  For each requested category the query returns one row for
\* each load time (each bucket, where a granularity is given) with a canceled row, its
\* vehicle_count the number of distinct (load time, vehicle) pairs with canceled status at
\* that time (in that bucket), a number; rows stored twice count once.
C23_DeclinedCount ==
    (op.kind = "get_number_of_declined_vehicles" /\ ValidQueueNames(op.queues_names))
        => /\ ~IsError(res)
           /\ CountsAreNumbers
           /\ DeclinedCounted

\* without granularity the query gives those counts
C23_DeclinedCountPerLoadTime ==
    (/\ op.kind = "get_number_of_declined_vehicles" /\ ValidQueueNames(op.queues_names)
     /\ op.floor_value = None)
        => /\ ~IsError(res)
           /\ CountsAreNumbers
           /\ DeclinedCounted


-----------------------------------------------------------------------------
(* Properties of the post-call wait *)

\* the stored rows of the category without a position that pass the filters
PositionLess(fs, name, filters) ==
    {r \in Range(FullRead(fs)[name]) : r.queue_pos = Null /\ MatchesAll(r, filters)}

\* the rows of the visit (vehicle, registration time) of the row v among rows
RowsOfVisit(rows, v) == {r \in rows : r.car_number = v.car_number /\ r.reg_date = v.reg_date}

\* the visits that were called and have no canceled row, each given by one of its rows
CalledVisits(rows) ==
    {v \in rows : /\ \E r \in RowsOfVisit(rows, v) : r.status = 3
                  /\ \A r \in RowsOfVisit(rows, v) : r.status # 9}

\* the time the visit was called: its earliest changed time
CallTime(rows, v) ==
    CHOOSE c \in {r.changed_date : r \in RowsOfVisit(rows, v)} :
        \A r \in RowsOfVisit(rows, v) : c <= r.changed_date

\* the wait of the visit in minutes: from its call to the latest load time it was seen at
WaitOfVisit(rows, v) ==
    (CHOOSE t \in {r.load_dt : r \in RowsOfVisit(rows, v)} :
        \A r \in RowsOfVisit(rows, v) : r.load_dt <= t) - CallTime(rows, v)

\* the waits w reduced by the aggregation type
WaitsReduced(aggregation_type, waits) ==
    CASE aggregation_type = "min" -> CHOOSE w \in waits : \A u \in waits : w <= u
      [] aggregation_type = "max" -> CHOOSE w \in waits : \A u \in waits : u <= w

\* the result holds, for each category and call time of a visit that counts, one row with
\* the waits of the visits called at that time reduced, and no other row
PostCallWaits ==
    \A n \in DOMAIN op.queues_names :
        LET rows == PositionLess(files, op.queues_names[n], op.filters)
        IN  /\ \A v \in CalledVisits(rows) :
                  LET c == CallTime(rows, v)
                      counted == SelectSeq(res.rows, LAMBDA r : r.relative_time = c
                                                                /\ r.queue_name = op.queues_names[n])
                  IN  /\ Len(counted) = 1
                      /\ counted[1].waiting_after_called
                            = WaitsReduced(op.aggregation_type,
                                           {WaitOfVisit(rows, u) :
                                               u \in {w \in CalledVisits(rows) : CallTime(rows, w) = c}})
            /\ \A i \in DOMAIN res.rows :
                  res.rows[i].queue_name = op.queues_names[n]
                      => \E v \in CalledVisits(rows) : CallTime(rows, v) = res.rows[i].relative_time

PostCallQuery ==
    /\ op.kind = "get_called_vehicles_waiting_time"
    /\ ValidQueueNames(op.queues_names)
    /\ op.aggregation_type \in {"min", "max"}
    /\ op.floor_value = None

\* C24: the post-call wait, without granularity.  Only the visits (vehicle, registration
\* time) that were called and have no canceled row contribute; the wait of a visit is the
\* time from its earliest changed time to the latest load time among its rows without a
\* position, whatever the aggregation type; the aggregation type reduces the waits of the
\* visits called at the same time, and the result has one row per call time and category.
C24_PostCallWait ==
    PostCallQuery => ~IsError(res) /\ PostCallWaits

\* with the aggregation type 'max' the query gives those waits
C24_LatestWithMax ==
    (PostCallQuery /\ op.aggregation_type = "max") => ~IsError(res) /\ PostCallWaits


-----------------------------------------------------------------------------
(* Properties of the repeat-visit histogram *)

\* the visits (vehicle, registration time) among the stored rows of the category that pass
\* the filters with exactly n rows
VisitsSeenTimes(fs, name, filters, n) ==
    LET rows == SelectSeq(FullRead(fs)[name], LAMBDA r : MatchesAll(r, filters))
    IN  {<<rows[i].car_number, rows[i].reg_date>> :
            i \in {k \in DOMAIN rows :
                      Len(SelectSeq(rows, LAMBDA r : /\ r.car_number = rows[k].car_number
                                                     /\ r.reg_date = rows[k].reg_date)) = n}}

\* C25: the repeat-visit histogram.  Called with a valid queue name,
\* get_single_vehicle_registrations_count raises nothing and returns, for each number n,
\* how many visits (vehicle, registration time) have n rows in the store.
C25_RepeatVisitHistogram ==
    (op.kind = "get_single_vehicle_registrations_count" /\ op.queues_names[1] \in QueueKeys)
        => /\ ~IsError(res)
           /\ res.columns = REGISTRATIONS_COLUMNS
           /\ \A n \in 1..Len(FullRead(files)[op.queues_names[1]]) :
                 LET visits == VisitsSeenTimes(files, op.queues_names[1], op.filters, n)
                     counted == SelectSeq(res.rows, LAMBDA r : r.count_of_registrations = n)
                 IN  IF visits = {} THEN counted = <<>>
                     ELSE Len(counted) = 1 /\ counted[1].vehicle_count = Cardinality(visits)

\* the query ends in its assertion for every queue name
C25_AlwaysAssertionError ==
    op.kind = "get_single_vehicle_registrations_count" => res = AssertionError


-----------------------------------------------------------------------------
(* Properties of the registered and the called throughput *)

\* the time a throughput query counts by: the registration time of the rows with status 2,
\* the changed time of the rows with status 3
ThroughputTime(row, status) == IF status = 2 THEN row.reg_date ELSE row.changed_date

\* the (time, vehicle) pairs of the stored rows of the category with the status that pass
\* the filters and whose time floors to the bucket b
ThroughputPairs(fs, name, status, filters, floor_value, b) ==
    {<<ThroughputTime(r, status), r.car_number>> :
        r \in {q \in Range(FullRead(fs)[name]) :
                  /\ q.status = status
                  /\ MatchesAll(q, filters)
                  /\ dt_floor(ThroughputTime(q, status), floor_value) = b}}

\* the buckets of the times of the stored rows of the category
ThroughputBuckets(fs, name, status, floor_value) ==
    {dt_floor(ThroughputTime(r, status), floor_value) : r \in Range(FullRead(fs)[name])}

ThroughputQuery ==
    /\ op.kind \in ThroughputKinds
    /\ ValidQueueNames(op.queues_names)
    /\ \A m \in DOMAIN op.queues_names : DatasetFiles(files, op.queues_names[m]) # {}

-----------------------------------------------------------------------------
(* Properties of the tagging and the order of the results *)

\* the rows are in non-decreasing order of relative_time
SortedByTime(rows) ==
    \A i, j \in DOMAIN rows : i < j => rows[i].relative_time <= rows[j].relative_time

\* every row of the result carries the name of a requested category whose dataset holds
\* the head row it was derived from
TaggedWithSource ==
    \A i \in DOMAIN res.rows :
        /\ res.rows[i].queue_name \in Range(op.queues_names)
        /\ \E r \in Range(FullRead(files)[res.rows[i].queue_name]) :
              r.queue_pos = 1 /\ r.car_number = res.rows[i].first_vehicle_number

\* C27: every row of the result of a query carries the category it was derived from in
\* queue_name, and the result is sorted by its time axis, relative_time, also where the
\* results of several categories are concatenated (here for get_waiting_time).
C27_TaggedAndSorted ==
    (op.kind = "get_waiting_time" /\ WaitingTimeChecked(op.queues_names, op.relative_time))
        => /\ ~IsError(res)
           /\ "queue_name" \in Range(res.columns)
           /\ TaggedWithSource
           /\ SortedByTime(res.rows)

\* the rows are tagged with their source, and the rows of each category are sorted
C27_SortedWithinCategory ==
    (op.kind = "get_waiting_time" /\ WaitingTimeChecked(op.queues_names, op.relative_time))
        => /\ ~IsError(res)
           /\ "queue_name" \in Range(res.columns)
           /\ TaggedWithSource
           /\ \A n \in DOMAIN op.queues_names :
                 SortedByTime(SelectSeq(res.rows, LAMBDA r : r.queue_name = op.queues_names[n]))

\* the result of the regional breakdown has no column queue_name
C27_RegionsUntagged ==
    (op.kind = "get_count_by_regions" /\ ~IsError(res)) => "queue_name" \notin Range(res.columns)


-----------------------------------------------------------------------------
(* Properties of the partitions *)

\* the year and month of the row are those of its load time
KeysOfLoadTime(row, year, month) ==
    year = YearOf(row.load_dt) /\ month = MonthOf(row.load_dt)

\* the frames a read has yielded, errors and None left out
FramesRead == SelectSeq(res, LAMBDA df : ~IsError(df) /\ df # None)

\* C28: the partition keys.  In every state reached by dumps and compactions every stored
\* row lies in the partition of the year and month of its load time, and the year and
\* month a read returns with a row, of the whole dataset or in batches, are those of its
\* load time.
C28_PartitionKeys ==
    /\ \A f \in files : \A i \in DOMAIN f.rows : KeysOfLoadTime(f.rows[i], f.year, f.month)
    /\ op.kind = "read"
          => \A n \in DOMAIN FramesRead : \A i \in DOMAIN FramesRead[n].rows :
                KeysOfLoadTime(FramesRead[n].rows[i], FramesRead[n].rows[i].year,
                               FramesRead[n].rows[i].month)

\* after a compaction the store holds two months of a dataset and a read in batches has
\* returned rows
C28_Witness ==
    /\ cpc = "done"
    /\ Cardinality(Partitions(files, CAR_LIVE_QUEUE_KEY)) = 2
    /\ op.kind = "read" /\ op.in_batches
    /\ FramesRead # <<>> /\ \E n \in DOMAIN FramesRead : Len(FramesRead[n].rows) = 2

-----------------------------------------------------------------------------
(* Properties of the ingestion loops *)

\* the fetched snapshot or the line is one dump_to_parquet accepts
GoodSnapshot(data) ==
    data \notin {JSONDecodeError, RequestException} /\ ConvertRaises(data) = None

\* the rows of the snapshot's cars are in the store
SnapshotStored(data) ==
    \E f \in files : /\ f.name = CAR_LIVE_QUEUE_KEY
                     /\ \E i \in DOMAIN f.rows : f.rows[i].load_dt = LoadTimeOf(data)

\* the bulk import has left its loop, at its end or by an exception
ImportEnded ==
    op.kind = "dump_all_stored_json_to_parquet" /\ op.pc \in {"done", "raised"}

\* C29: ingestion isolates the failures of a cycle.  After every cycle of the ingestion
\* loop, also one that failed (no response, a response that is no snapshot, a malformed
\* snapshot), the loop is alive and waits for its next cycle; and when the bulk import has
\* ended, every good snapshot of the file is stored, also those after a bad one.
C29_FailuresIsolated ==
    /\ op.kind = "run_equeue_parser" => ParserSleeps
    /\ ImportEnded
          => \A i \in DOMAIN op.lines : GoodSnapshot(op.lines[i]) => SnapshotStored(op.lines[i])

\* what holds instead: a failed cycle and a failed line are the last step of their loop,
\* nothing is fetched or stored after them
C29_FailureEndsLoop ==
    [][(op.kind \in {"run_equeue_parser", "dump_all_stored_json_to_parquet"} /\ op.pc = "raised")
            => UNCHANGED vars]_vars

\* a cycle or a line that fails stores nothing itself, while the cycles and the lines
\* before it stay stored
C29_FailedCycleStoresNothing ==
    /\ (op.kind \in {"run_equeue_parser", "dump_all_stored_json_to_parquet"} /\ op.pc = "raised")
          => files = op.before
    /\ op.kind = "dump_all_stored_json_to_parquet"
          => \A i \in 1..op.idx :
                (GoodSnapshot(op.lines[i]) /\ \A j \in 1..i : GoodSnapshot(op.lines[j]))
                    => SnapshotStored(op.lines[i])


-----------------------------------------------------------------------------
(* Properties of the dedup of the Checkpoint Info *)

\* the stored info rows
InfoRows(fs) == FullRead(fs)[INFO_KEY]

\* a dump_to_parquet has returned in this step
DumpReturns == op'.kind = "dump" /\ ndumps' = ndumps + 1 /\ res' = None

\* the info of the snapshot differs in a descriptive field from every stored info row
NewContent(fs, equeue_info) ==
    \A i \in DOMAIN InfoRows(fs) : DescriptiveFields(InfoRows(fs)[i]) # equeue_info

\* every info row stored before the step is stored after it, as it was
InfoRowsKept ==
    \A i \in DOMAIN InfoRows(files) :
        Len(SelectSeq(InfoRows(files'), LAMBDA r : r = InfoRows(files)[i]))
            >= Len(SelectSeq(InfoRows(files), LAMBDA r : r = InfoRows(files)[i]))

\* C30: the dedup never drops new content and never touches old content.  Whenever a dump
\* is given a Checkpoint Info that differs in at least one descriptive field from every
\* info row already stored, a new row is stored for it, and no dump changes or removes an
\* info row stored earlier.
C30_DedupNeverDrops ==
    [][DumpReturns
          => /\ NewContent(files, op'.data[INFO_KEY])
                   => /\ Len(InfoRows(files')) = Len(InfoRows(files)) + 1
                      /\ Len(InfoRowsOf(files', op'.data[INFO_KEY])) = 1
             /\ InfoRowsKept]_vars

\* what holds instead: no dump changes or removes an info row stored earlier
C30_OldContentKept == [][DumpReturns => InfoRowsKept]_vars

\* the string the hash of the info is taken from is the one of no stored info row
NewHashInput(fs, equeue_info) ==
    \A i \in DOMAIN InfoRows(fs) :
        InfoHashInput(DescriptiveFields(InfoRows(fs)[i])) # InfoHashInput(equeue_info)

\* and an info whose fields joined by '_' give a string no stored row gives is stored
C30_NewHashInputStored ==
    [][(DumpReturns /\ NewHashInput(files, op'.data[INFO_KEY]))
          => /\ Len(InfoRows(files')) = Len(InfoRows(files)) + 1
             /\ Len(InfoRowsOf(files', op'.data[INFO_KEY])) = 1]_vars

====
